---- MODULE Spec2Model ----
(***************************************************************************)
(* OpenCoffee pair generation.                                             *)
(*                                                                         *)
(* Three pairing loops of the repository are modelled over one state:      *)
(*   "simple"  SimpleGeneratorAlgorithm.compute_pairs_from_users           *)
(*   "inline"  the pairing loop written inline in manage_invitation_action *)
(*   "maxdist" MaxDistanceGeneratorAlgorithm.compute_pairs_from_users      *)
(*                                                                         *)
(* Members are the integers 1..MaxUsers, ordered as the user id strings    *)
(* are ordered lexicographically; 0 stands for "no member yet" (None).     *)
(* Python lists are sequences; list.index and the matrix coordinates keep   *)
(* Python's 0-based positions.                                             *)
(* The messaging service is external: every remote call answers            *)
(* nondeterministically when it is issued (a value, or a                   *)
(* GroupwareCommunicationError).  random.shuffle and random.choice are     *)
(* nondeterministic choices.                                               *)
(***************************************************************************)
EXTENDS Integers, Sequences, FiniteSets, TLC

\* Bounds of the model: the roster size of the simple pairing, the roster
\* size of the Max-Distance pairing (whose runs multiply with the distance
\* matrices), backtrack_max_attempts, and the number of channels.
MaxUsers == 4
MaxDistanceUsers == 3
MaxAttempts == 2
MaxChannels == 2

\* Bounds of the repeated calls on one instance: the number of calls and the
\* roster size of each.
MaxRuns == 2
MaxRerunUsers == 2

\* Bounds of the paginated listings: the number of pages, the entries of a
\* page, and the ids that occur in them.
MaxPages == 2
MaxPageLen == 1
MaxPageIds == 2

\* Bounds of the application runs: the minutes the clock can show, the files
\* earlier runs have left in the history directory, and the pairs in each.
MaxClock == 2
MaxFiles == 2
MaxHistoryPairs == 2

\* slack.backtrack_days of the configuration the tests use.
BacktrackDays == 180

\* The message threshold manage_reminder_action passes to the check.
ReminderLimit == 5

\* Width of the distance matrix cells (dtype uint16).
MatrixCellBits == 16

\* The user ids: the largest roster, so that a channel of a smaller roster
\* can hold members that are not in it.
Members ==
    1..(IF MaxUsers > MaxDistanceUsers + 1 THEN MaxUsers ELSE MaxDistanceUsers + 1)

VARIABLES
    algo,                   \* which pairing loop runs
    backtrack_max_attempts, \* config slack.backtrack_max_attempts
    roster,                 \* ghost: the set of members handed to the run
    users,                  \* the list `users` (simple/inline: consumed; maxdist: sorted roster)
    working_users,          \* maxdist: the working copy
    pairs,                  \* _pairs / pairs
    ignored,                \* _ignored / ignored
    current_user,           \* current_user / first
    target_user,            \* target_user / second / candidate_user
    exist_recent_message,   \* the last answer of the recent-exchange check
    retry,                  \* retry counter
    channel_ids,            \* maxdist: the channel list returned by the service
    channel_idx,            \* maxdist: position of the builder's for loop
    u_distance_matrix,      \* maxdist: the distance matrix
    u_distance_dict,        \* maxdist: distance grouping of the current member
    bucket,                 \* maxdist: position of the for loop over the grouping
    cur_checks,             \* ghost: recent-exchange checks issued for current_user
    n_checks,               \* ghost: number of recent-exchange checks issued in the run
    answers_seen,           \* ghost: the set of results the checks have given
    channel_calls,          \* ghost: the channel calls the builder has issued
    shared_channels,        \* ghost: per roster pair, the channels fetched that hold both
    cells_written,          \* ghost: the matrix cells the builder has written
    cells_read,             \* ghost: the matrix cells the last distance grouping read
    pbar,                   \* pbar.n: the units reported to the progress bar of the run
    pc,                     \* control position
    n_runs,                 \* ghost: compute_pairs_from_users calls made on the instance
    api_method,             \* SlackWrapper: the Slack method the running wrapper method pages through
    api_pages,              \* SlackWrapper: the pages the service holds for that listing
    ignore_users,           \* SlackWrapper: the argument ignore_users
    response,               \* SlackWrapper: the page held by `response` (0: no call made yet)
    channels,               \* SlackWrapper: the list `channels` / `chanel_users`
    wrapper_result,         \* SlackWrapper: the list returned
    api_calls,              \* ghost: the Slack calls the wrapper method has made
    wpc,                    \* SlackWrapper: control position
    action,                 \* main: args.action
    test_mode,              \* main: config GENERIC.test_mode
    conf,                   \* main: args.conf, the configuration file name
    now,                    \* main: datetime.now(), in minutes of the day
    history_dir,            \* the files of config GENERIC.history_path
    file_history,           \* reminder: the file name chosen by the lookup
    history_pairs,          \* reminder: json.load(file)
    pair_idx,               \* invitation/reminder: the pairs the for loop has handled
    sends,                  \* ghost: the send_message_to_pairs calls made
    rem_checks,             \* ghost: the recent-exchange checks the reminder has issued
    reminder_sent,          \* reminder: reminder_sent
    written,                \* ghost: the names of the files the run has written
    apc,                    \* main: control position
    inl_users,              \* inline loop run beside Simple: users
    inl_pairs,              \* inline loop run beside Simple: pairs
    inl_ignored,            \* inline loop run beside Simple: ignored
    inl_first,              \* inline loop run beside Simple: first
    inl_second,             \* inline loop run beside Simple: second
    inl_exist_recent_message, \* inline loop run beside Simple: exist_recent_message
    inl_retry,              \* inline loop run beside Simple: retry
    inl_checks,             \* ghost: the checks that loop has issued for first
    inl_n_checks,           \* ghost: the number of checks that loop has issued
    inl_pc                  \* inline loop run beside Simple: control position

\* The state of a paginated SlackWrapper listing.
wrapVars == <<api_method, api_pages, ignore_users, response, channels,
              wrapper_result, api_calls, wpc>>

\* The state of manage_invitation_action / manage_reminder_action around the
\* pairing loop.
appVars == <<action, test_mode, conf, now, history_dir, file_history,
             history_pairs, pair_idx, sends, rem_checks, reminder_sent,
             written, apc>>

\* The state of the inline pairing loop of manage_invitation_action when it
\* is run beside SimpleGeneratorAlgorithm on the same inputs.
twinVars == <<inl_users, inl_pairs, inl_ignored, inl_first, inl_second,
              inl_exist_recent_message, inl_retry, inl_checks, inl_n_checks,
              inl_pc>>

\* What lies around one pairing run: the calls made on the instance, the
\* SlackWrapper listings, the application, and the loop run beside it.
outerVars == <<n_runs, wrapVars, appVars, twinVars>>

\* The state of one pairing run.
pairingVars == <<algo, backtrack_max_attempts, roster, users, working_users, pairs,
                 ignored, current_user, target_user, exist_recent_message, retry,
                 channel_ids, channel_idx, u_distance_matrix, u_distance_dict, bucket,
                 cur_checks, n_checks, answers_seen, channel_calls,
                 shared_channels, cells_written, cells_read, pbar, pc>>

vars == <<pairingVars, outerVars>>

confVars == <<algo, backtrack_max_attempts, roster>>

\* The ghost record of the builder's calls and of the matrix accesses.
matrixLog == <<channel_calls, shared_channels, cells_written, cells_read>>

maxVars == <<working_users, channel_ids, channel_idx, u_distance_matrix,
             u_distance_dict, bucket, matrixLog>>

----------------------------------------------------------------------------
\* List helpers (Python list semantics).

Range(s) == {s[i] : i \in 1..Len(s)}

\* All orders random.shuffle can leave a list in.
Perms(s) ==
    {[i \in 1..Len(s) |-> s[f[i]]] :
        f \in {g \in [1..Len(s) -> 1..Len(s)] :
                  \A i, j \in 1..Len(s) : i # j => g[i] # g[j]}}

\* list.index(x): 0-based position of the first occurrence.
Index(s, x) ==
    (CHOOSE i \in 1..Len(s) : s[i] = x /\ \A j \in 1..(i - 1) : s[j] # x) - 1

\* list.remove(x): drops the first occurrence.
Remove(s, x) ==
    LET i == Index(s, x) + 1
    IN  SubSeq(s, 1, i - 1) \o SubSeq(s, i + 1, Len(s))

\* A list holding the members of S, each once.
RECURSIVE ListOf(_)
ListOf(S) ==
    IF S = {} THEN <<>>
    ELSE LET m == CHOOSE x \in S : \A y \in S : x <= y
         IN  <<m>> \o ListOf(S \ {m})

RECURSIVE Insert(_, _)
Insert(s, x) ==
    IF s = <<>> THEN <<x>>
    ELSE IF x <= Head(s) THEN <<x>> \o s
    ELSE <<Head(s)>> \o Insert(Tail(s), x)

\* list.sort() / sorted(): ascending order.
RECURSIVE Sort(_)
Sort(s) == IF s = <<>> THEN <<>> ELSE Insert(Sort(Tail(s)), Head(s))

\* The record the ghost log keeps of one recent-exchange check.
Check(cur, cand, res) ==
    [pair |-> <<cur, cand>>, days |-> BacktrackDays, result |-> res]

Result(b) == IF b THEN "True" ELSE "False"

----------------------------------------------------------------------------
\* MaxDistanceGeneratorAlgorithm: the distance matrix and the distance grouping.

\* Faulty variant of GetSparseMatrixIndex: the two users are not put in order.
GetSparseMatrixIndex_NoSwap(us, user1, user2) ==
    <<Index(us, user1), Index(us, user2)>>

\* _get_sparse_matrix_index: the smaller id first, then the positions in users.
GetSparseMatrixIndex(us, user1, user2) ==
    LET a == IF user1 > user2 THEN user2 ELSE user1
        b == IF user1 > user2 THEN user1 ELSE user2
    IN  <<Index(us, a), Index(us, b)>>

\* lil_matrix((len(users), len(users)), dtype = 'uint16'): all cells zero.
EmptyMatrix(us) == [ij \in (0..(Len(us) - 1)) \X (0..(Len(us) - 1)) |-> 0]

\* itertools.combinations(users, 2), as pairs of positions p < q.
Combinations2(us) == {pq \in (1..Len(us)) \X (1..Len(us)) : pq[1] < pq[2]}

\* Faulty variant of ScanChannel: one member in the channel is enough to count.
ScanChannel_EitherMember(matrix, us, channel_users) ==
    [ij \in DOMAIN matrix |->
        (matrix[ij] + Cardinality({pq \in Combinations2(us) :
                          /\ \/ us[pq[1]] \in Range(channel_users)
                             \/ us[pq[2]] \in Range(channel_users)
                          /\ GetSparseMatrixIndex(us, us[pq[1]], us[pq[2]]) = ij}))
            % (2 ^ MatrixCellBits)]

\* The body of the builder's loop for one channel: every combination of two
\* users that are both in channel_users adds one to its cell.
ScanChannel(matrix, us, channel_users) ==
    [ij \in DOMAIN matrix |->
        (matrix[ij] + Cardinality({pq \in Combinations2(us) :
                          /\ us[pq[1]] \in Range(channel_users)
                          /\ us[pq[2]] \in Range(channel_users)
                          /\ GetSparseMatrixIndex(us, us[pq[1]], us[pq[2]]) = ij}))
            % (2 ^ MatrixCellBits)]

\* The cells the builder's loop writes for one channel.
CellsOfChannel(us, channel_users) ==
    {GetSparseMatrixIndex(us, us[pq[1]], us[pq[2]]) :
        pq \in {c \in Combinations2(us) : /\ us[c[1]] \in Range(channel_users)
                                          /\ us[c[2]] \in Range(channel_users)}}

\* The unordered pairs of roster members, the smaller id first.
RosterPairs(R) == {ab \in R \X R : ab[1] < ab[2]}

\* The ghost count after one more channel, whose members are the set S, has
\* been fetched: one more for every pair that S holds both members of.
CountShared(shared, S) ==
    [ab \in DOMAIN shared |->
        IF ab[1] \in S /\ ab[2] \in S THEN shared[ab] + 1 ELSE shared[ab]]

\* The record the ghost log keeps of one channel call of the builder.
ChannelCall(op, channel, res) == [op |-> op, channel |-> channel, result |-> res]

\* The distance keys in the order the dictionary first sees them.
RECURSIVE KeysInOrder(_, _)
KeysInOrder(ds, seen) ==
    IF ds = <<>> THEN <<>>
    ELSE IF Head(ds) \in seen THEN KeysInOrder(Tail(ds), seen)
    ELSE <<Head(ds)>> \o KeysInOrder(Tail(ds), seen \cup {Head(ds)})

\* Faulty variant of SortedKeys: the groups stay in insertion order.
SortedKeys_Unsorted(keys) == keys

\* sorted(distance_dict.keys())
SortedKeys(keys) == Sort(keys)

\* Faulty variant of BuildUserDistanceDict: the groups in descending order of
\* distance, the most shared channels first.
BuildUserDistanceDict_Nearest(us, working, current, matrix) ==
    LET Tested(t) == ~(t \notin Range(working) \/ t = current)
        tests == SelectSeq(us, Tested)
        Dist(t) == matrix[GetSparseMatrixIndex(us, current, t)]
        dists == [i \in 1..Len(tests) |-> Dist(tests[i])]
        asc == SortedKeys(KeysInOrder(dists, {}))
        keys == [k \in 1..Len(asc) |-> asc[Len(asc) + 1 - k]]
        SameDistance(k) == LET At(t) == Dist(t) = keys[k] IN SelectSeq(tests, At)
    IN  [k \in 1..Len(keys) |-> [distance |-> keys[k], users |-> SameDistance(k)]]

\* _build_user_distance_dict: the members still in working_users, other than
\* current_user, grouped by their distance to current_user; the groups in
\* ascending order of distance, each group in the order of users.
BuildUserDistanceDict(us, working, current, matrix) ==
    LET Tested(t) == ~(t \notin Range(working) \/ t = current)
        tests == SelectSeq(us, Tested)
        Dist(t) == matrix[GetSparseMatrixIndex(us, current, t)]
        dists == [i \in 1..Len(tests) |-> Dist(tests[i])]
        keys == SortedKeys(KeysInOrder(dists, {}))
        SameDistance(k) == LET At(t) == Dist(t) = keys[k] IN SelectSeq(tests, At)
    IN  [k \in 1..Len(keys) |-> [distance |-> keys[k], users |-> SameDistance(k)]]

\* The cells _build_user_distance_dict reads for current.
CellsOfGrouping(us, working, current) ==
    {GetSparseMatrixIndex(us, current, t) :
        t \in {x \in Range(us) : ~(x \notin Range(working) \/ x = current)}}

----------------------------------------------------------------------------
\* The roster sizes explored in full for each pairing loop.
RosterSizes(a) == IF a = "maxdist" THEN 0..MaxDistanceUsers ELSE 0..MaxUsers

\* No SlackWrapper listing is running.
WrapperIdle ==
    /\ api_method = "none"
    /\ api_pages = <<>>
    /\ ignore_users = {}
    /\ response = 0
    /\ channels = <<>>
    /\ wrapper_result = <<>>
    /\ api_calls = 0
    /\ wpc = "idle"

\* Neither manage_invitation_action nor manage_reminder_action is running.
AppIdle ==
    /\ action = "none"
    /\ test_mode = FALSE
    /\ conf = <<>>
    /\ now = 0
    /\ history_dir = {}
    /\ file_history = <<>>
    /\ history_pairs = <<>>
    /\ pair_idx = 0
    /\ sends = <<>>
    /\ rem_checks = <<>>
    /\ reminder_sent = 0
    /\ written = <<>>
    /\ apc = "idle"

\* No loop is run beside the pairing.
TwinIdle ==
    /\ inl_users = <<>>
    /\ inl_pairs = <<>>
    /\ inl_ignored = <<>>
    /\ inl_first = 0
    /\ inl_second = 0
    /\ inl_exist_recent_message = FALSE
    /\ inl_retry = 0
    /\ inl_checks = <<>>
    /\ inl_n_checks = 0
    /\ inl_pc = "idle"

\* A fresh instance (empty _pairs and _ignored) of pairing loop a, handed a
\* list of unique members of one of the given sizes, in any order.
InitPairing(a, sizes) ==
    /\ algo = a
    /\ backtrack_max_attempts \in 0..MaxAttempts
    /\ \E n \in sizes :
          /\ users \in Perms([i \in 1..n |-> i])
          /\ roster = 1..n
          /\ shared_channels = [ab \in RosterPairs(1..n) |-> 0]
    /\ working_users = <<>>
    /\ pairs = <<>>
    /\ ignored = <<>>
    /\ current_user = 0
    /\ target_user = 0
    /\ exist_recent_message = FALSE
    /\ retry = 0
    /\ channel_ids = <<>>
    /\ channel_idx = 0
    /\ u_distance_matrix = <<>>
    /\ u_distance_dict = <<>>
    /\ bucket = 0
    /\ cur_checks = <<>>
    /\ n_checks = 0
    /\ answers_seen = {}
    /\ pbar = 0
    /\ channel_calls = <<>>
    /\ cells_written = {}
    /\ cells_read = {}
    /\ pc = "start"
    /\ n_runs = 1
    /\ WrapperIdle
    /\ AppIdle

\* That instance, nothing run beside it.
InitFor(a, sizes) == InitPairing(a, sizes) /\ TwinIdle

Init == \E a \in {"simple", "inline", "maxdist"} : InitFor(a, RosterSizes(a))

----------------------------------------------------------------------------
\* SimpleGeneratorAlgorithm.compute_pairs_from_users

SimpleShuffle ==
    /\ algo = "simple" /\ pc = "start"
    /\ users' \in Perms(users)
    /\ pc' = "loop"
    /\ UNCHANGED <<algo, backtrack_max_attempts, roster, pairs, ignored,
                   current_user, target_user, exist_recent_message, retry,
                   cur_checks, n_checks, answers_seen>>
    /\ UNCHANGED maxVars
    /\ pbar' = 0
    /\ UNCHANGED outerVars

\* while len(users) > 1: current_user = users.pop(0); target_user = random.choice(users)
SimplePop ==
    /\ algo = "simple" /\ pc = "loop"
    /\ Len(users) > 1
    /\ current_user' = Head(users)
    /\ users' = Tail(users)
    /\ target_user' \in Range(users')
    /\ cur_checks' = <<>>
    /\ pc' = "check"
    /\ UNCHANGED <<algo, backtrack_max_attempts, roster, pairs, ignored,
                   exist_recent_message, retry, n_checks, answers_seen>>
    /\ UNCHANGED maxVars
    /\ UNCHANGED pbar
    /\ UNCHANGED outerVars

\* Faulty variant of SimpleRetryCondition: one retry too many (retry <= max).
SimpleRetryCondition_OffByOne ==
    exist_recent_message = TRUE /\ retry <= backtrack_max_attempts

\* while exist_recent_message is True and retry < backtrack_max_attempts
SimpleRetryCondition ==
    exist_recent_message = TRUE /\ retry < backtrack_max_attempts

\* The first check of (current_user, target_user), then retry = 0.
SimpleFirstCheck ==
    /\ algo = "simple" /\ pc = "check"
    /\ n_checks' = n_checks + 1
    /\ \/ \E ans \in BOOLEAN :
            /\ exist_recent_message' = ans
            /\ retry' = 0
            /\ cur_checks' = Append(cur_checks, Check(current_user, target_user, Result(ans)))
            /\ answers_seen' = answers_seen \cup {Result(ans)}
            /\ pc' = "retry"
       \/ /\ cur_checks' = Append(cur_checks, Check(current_user, target_user, "Error"))
          /\ answers_seen' = answers_seen \cup {"Error"}
          /\ pc' = "aborted"
          /\ UNCHANGED <<exist_recent_message, retry>>
    /\ UNCHANGED <<algo, backtrack_max_attempts, roster, users, pairs, ignored,
                   current_user, target_user>>
    /\ UNCHANGED maxVars
    /\ UNCHANGED pbar
    /\ UNCHANGED outerVars

\* Faulty variant of SimpleRetry: a failing check is swallowed, the current
\* user is given up on and the pairing loop goes on.
SimpleRetry_ErrorSwallowed ==
    /\ algo = "simple" /\ pc = "retry"
    /\ SimpleRetryCondition
    /\ target_user' \in Range(users)
    /\ retry' = retry + 1
    /\ n_checks' = n_checks + 1
    /\ \/ \E ans \in BOOLEAN :
            /\ exist_recent_message' = ans
            /\ cur_checks' = Append(cur_checks, Check(current_user, target_user', Result(ans)))
            /\ answers_seen' = answers_seen \cup {Result(ans)}
            /\ pc' = "retry"
            /\ UNCHANGED ignored
       \/ /\ cur_checks' = Append(cur_checks, Check(current_user, target_user', "Error"))
          /\ answers_seen' = answers_seen \cup {"Error"}
          /\ ignored' = Append(ignored, current_user)
          /\ pc' = "loop"
          /\ UNCHANGED exist_recent_message
    /\ UNCHANGED <<algo, backtrack_max_attempts, roster, users, pairs, current_user>>
    /\ UNCHANGED maxVars
    /\ UNCHANGED pbar
    /\ UNCHANGED outerVars

\* One turn of the retry loop: resample, count, check again.
SimpleRetry ==
    /\ algo = "simple" /\ pc = "retry"
    /\ SimpleRetryCondition
    /\ target_user' \in Range(users)
    /\ retry' = retry + 1
    /\ n_checks' = n_checks + 1
    /\ \/ \E ans \in BOOLEAN :
            /\ exist_recent_message' = ans
            /\ cur_checks' = Append(cur_checks, Check(current_user, target_user', Result(ans)))
            /\ answers_seen' = answers_seen \cup {Result(ans)}
            /\ pc' = "retry"
       \/ /\ cur_checks' = Append(cur_checks, Check(current_user, target_user', "Error"))
          /\ answers_seen' = answers_seen \cup {"Error"}
          /\ pc' = "aborted"
          /\ UNCHANGED exist_recent_message
    /\ UNCHANGED <<algo, backtrack_max_attempts, roster, users, pairs, ignored,
                   current_user>>
    /\ UNCHANGED maxVars
    /\ UNCHANGED pbar
    /\ UNCHANGED outerVars

\* Faulty variant of SimpleIgnore: the member given up on is not recorded.
SimpleIgnore_NoAppend ==
    /\ algo = "simple" /\ pc = "retry"
    /\ ~SimpleRetryCondition
    /\ exist_recent_message
    /\ pc' = "loop"
    /\ UNCHANGED <<algo, backtrack_max_attempts, roster, users, pairs, ignored,
                   current_user, target_user, exist_recent_message, retry,
                   cur_checks, n_checks, answers_seen>>
    /\ UNCHANGED maxVars
    /\ pbar' = pbar + 1
    /\ UNCHANGED outerVars

\* if exist_recent_message: self._ignored.append(current_user)
SimpleIgnore ==
    /\ algo = "simple" /\ pc = "retry"
    /\ ~SimpleRetryCondition
    /\ exist_recent_message
    /\ ignored' = Append(ignored, current_user)
    /\ pc' = "loop"
    /\ UNCHANGED <<algo, backtrack_max_attempts, roster, users, pairs,
                   current_user, target_user, exist_recent_message, retry,
                   cur_checks, n_checks, answers_seen>>
    /\ UNCHANGED maxVars
    /\ pbar' = pbar + 1
    /\ UNCHANGED outerVars

\* else: users.remove(target_user); self._pairs.append((current_user, target_user))
SimpleCommit ==
    /\ algo = "simple" /\ pc = "retry"
    /\ ~SimpleRetryCondition
    /\ ~exist_recent_message
    /\ users' = Remove(users, target_user)
    /\ pairs' = Append(pairs, <<current_user, target_user>>)
    /\ pc' = "loop"
    /\ UNCHANGED <<algo, backtrack_max_attempts, roster, ignored,
                   current_user, target_user, exist_recent_message, retry,
                   cur_checks, n_checks, answers_seen>>
    /\ UNCHANGED maxVars
    /\ pbar' = pbar + 2
    /\ UNCHANGED outerVars

\* Faulty variant of SimpleFinish: the loop exit forgets the member left over.
SimpleFinish_NoExtend ==
    /\ algo = "simple" /\ pc = "loop"
    /\ ~(Len(users) > 1)
    /\ pc' = "done"
    /\ UNCHANGED <<algo, backtrack_max_attempts, roster, users, pairs, ignored,
                   current_user, target_user, exist_recent_message, retry,
                   cur_checks, n_checks, answers_seen>>
    /\ UNCHANGED maxVars
    /\ pbar' = pbar + Len(users)
    /\ UNCHANGED outerVars

\* Faulty variant of SimpleFinish: the loop is left only on an empty list.
SimpleFinish_OnEmpty ==
    /\ algo = "simple" /\ pc = "loop"
    /\ Len(users) = 0
    /\ ignored' = ignored \o users
    /\ pc' = "done"
    /\ UNCHANGED <<algo, backtrack_max_attempts, roster, users, pairs,
                   current_user, target_user, exist_recent_message, retry,
                   cur_checks, n_checks, answers_seen>>
    /\ UNCHANGED maxVars
    /\ pbar' = pbar + Len(users)
    /\ UNCHANGED outerVars

\* Faulty variant of SimpleFinish: the bar is closed without the update for
\* the member left over.
SimpleFinish_NoFinalUpdate ==
    /\ algo = "simple" /\ pc = "loop"
    /\ ~(Len(users) > 1)
    /\ ignored' = ignored \o users
    /\ pc' = "done"
    /\ UNCHANGED <<algo, backtrack_max_attempts, roster, users, pairs,
                   current_user, target_user, exist_recent_message, retry,
                   cur_checks, n_checks, answers_seen>>
    /\ UNCHANGED maxVars
    /\ UNCHANGED pbar
    /\ UNCHANGED outerVars

\* Loop exit: pbar.update(len(users)); self._ignored.extend(users)
SimpleFinish ==
    /\ algo = "simple" /\ pc = "loop"
    /\ ~(Len(users) > 1)
    /\ ignored' = ignored \o users
    /\ pc' = "done"
    /\ UNCHANGED <<algo, backtrack_max_attempts, roster, users, pairs,
                   current_user, target_user, exist_recent_message, retry,
                   cur_checks, n_checks, answers_seen>>
    /\ UNCHANGED maxVars
    /\ pbar' = pbar + Len(users)
    /\ UNCHANGED outerVars

\* compute_pairs_from_users is called again on the same instance with another
\* list: the locals start afresh, _pairs and _ignored are the instance's fields
\* and nothing assigns them anew.
SimpleCallAgain ==
    /\ algo = "simple" /\ pc = "done"
    /\ n_runs < MaxRuns
    /\ n_runs' = n_runs + 1
    /\ \E n \in 0..MaxRerunUsers :
          /\ users' \in Perms([i \in 1..n |-> i])
          /\ roster' = 1..n
    /\ current_user' = 0
    /\ target_user' = 0
    /\ exist_recent_message' = FALSE
    /\ retry' = 0
    /\ cur_checks' = <<>>
    /\ n_checks' = 0
    /\ answers_seen' = {}
    /\ pbar' = 0
    /\ pc' = "start"
    /\ UNCHANGED <<algo, backtrack_max_attempts, pairs, ignored>>
    /\ UNCHANGED maxVars
    /\ UNCHANGED <<wrapVars, appVars, twinVars>>

----------------------------------------------------------------------------
\* The pairing loop of manage_invitation_action (first = current_user,
\* second = target_user).

InlineShuffle ==
    /\ algo = "inline" /\ pc = "start"
    /\ users' \in Perms(users)
    /\ pc' = "loop"
    /\ UNCHANGED <<algo, backtrack_max_attempts, roster, pairs, ignored,
                   current_user, target_user, exist_recent_message, retry,
                   cur_checks, n_checks, answers_seen>>
    /\ UNCHANGED maxVars
    /\ pbar' = 0
    /\ UNCHANGED outerVars

\* while len(users) > 1: first = users.pop(0); second = random.choice(users)
InlinePop ==
    /\ algo = "inline" /\ pc = "loop"
    /\ Len(users) > 1
    /\ current_user' = Head(users)
    /\ users' = Tail(users)
    /\ target_user' \in Range(users')
    /\ cur_checks' = <<>>
    /\ pc' = "check"
    /\ UNCHANGED <<algo, backtrack_max_attempts, roster, pairs, ignored,
                   exist_recent_message, retry, n_checks, answers_seen>>
    /\ UNCHANGED maxVars
    /\ UNCHANGED pbar
    /\ UNCHANGED outerVars

\* while exist_recent_message is True and retry < backtrack_max_attempts
InlineRetryCondition ==
    exist_recent_message = TRUE /\ retry < backtrack_max_attempts

\* The first check of (first, second), then retry = 0.
InlineFirstCheck ==
    /\ algo = "inline" /\ pc = "check"
    /\ n_checks' = n_checks + 1
    /\ \/ \E ans \in BOOLEAN :
            /\ exist_recent_message' = ans
            /\ retry' = 0
            /\ cur_checks' = Append(cur_checks, Check(current_user, target_user, Result(ans)))
            /\ answers_seen' = answers_seen \cup {Result(ans)}
            /\ pc' = "retry"
       \/ /\ cur_checks' = Append(cur_checks, Check(current_user, target_user, "Error"))
          /\ answers_seen' = answers_seen \cup {"Error"}
          /\ pc' = "aborted"
          /\ UNCHANGED <<exist_recent_message, retry>>
    /\ UNCHANGED <<algo, backtrack_max_attempts, roster, users, pairs, ignored,
                   current_user, target_user>>
    /\ UNCHANGED maxVars
    /\ UNCHANGED pbar
    /\ UNCHANGED outerVars

InlineRetry ==
    /\ algo = "inline" /\ pc = "retry"
    /\ InlineRetryCondition
    /\ target_user' \in Range(users)
    /\ retry' = retry + 1
    /\ n_checks' = n_checks + 1
    /\ \/ \E ans \in BOOLEAN :
            /\ exist_recent_message' = ans
            /\ cur_checks' = Append(cur_checks, Check(current_user, target_user', Result(ans)))
            /\ answers_seen' = answers_seen \cup {Result(ans)}
            /\ pc' = "retry"
       \/ /\ cur_checks' = Append(cur_checks, Check(current_user, target_user', "Error"))
          /\ answers_seen' = answers_seen \cup {"Error"}
          /\ pc' = "aborted"
          /\ UNCHANGED exist_recent_message
    /\ UNCHANGED <<algo, backtrack_max_attempts, roster, users, pairs, ignored,
                   current_user>>
    /\ UNCHANGED maxVars
    /\ UNCHANGED pbar
    /\ UNCHANGED outerVars

\* if exist_recent_message: ignored.append(first)
InlineIgnore ==
    /\ algo = "inline" /\ pc = "retry"
    /\ ~InlineRetryCondition
    /\ exist_recent_message
    /\ ignored' = Append(ignored, current_user)
    /\ pc' = "loop"
    /\ UNCHANGED <<algo, backtrack_max_attempts, roster, users, pairs,
                   current_user, target_user, exist_recent_message, retry,
                   cur_checks, n_checks, answers_seen>>
    /\ UNCHANGED maxVars
    /\ pbar' = pbar + 1
    /\ UNCHANGED outerVars

\* Faulty variant of InlineCommit: second stays in users after the pair is made.
InlineCommit_NoRemove ==
    /\ algo = "inline" /\ pc = "retry"
    /\ ~InlineRetryCondition
    /\ ~exist_recent_message
    /\ pairs' = Append(pairs, <<current_user, target_user>>)
    /\ pc' = "loop"
    /\ UNCHANGED <<algo, backtrack_max_attempts, roster, users, ignored,
                   current_user, target_user, exist_recent_message, retry,
                   cur_checks, n_checks, answers_seen>>
    /\ UNCHANGED maxVars
    /\ pbar' = pbar + 2
    /\ UNCHANGED outerVars

\* else: users.remove(second); pairs.append((first, second))
InlineCommit ==
    /\ algo = "inline" /\ pc = "retry"
    /\ ~InlineRetryCondition
    /\ ~exist_recent_message
    /\ users' = Remove(users, target_user)
    /\ pairs' = Append(pairs, <<current_user, target_user>>)
    /\ pc' = "loop"
    /\ UNCHANGED <<algo, backtrack_max_attempts, roster, ignored,
                   current_user, target_user, exist_recent_message, retry,
                   cur_checks, n_checks, answers_seen>>
    /\ UNCHANGED maxVars
    /\ pbar' = pbar + 2
    /\ UNCHANGED outerVars

\* Loop exit: ignored.extend(users)
InlineFinish ==
    /\ algo = "inline" /\ pc = "loop"
    /\ ~(Len(users) > 1)
    /\ ignored' = ignored \o users
    /\ pc' = "done"
    /\ UNCHANGED <<algo, backtrack_max_attempts, roster, users, pairs,
                   current_user, target_user, exist_recent_message, retry,
                   cur_checks, n_checks, answers_seen>>
    /\ UNCHANGED maxVars
    /\ pbar' = pbar + Len(users)
    /\ UNCHANGED outerVars

----------------------------------------------------------------------------
\* MaxDistanceGeneratorAlgorithm.compute_pairs_from_users

\* users.sort()
MaxSort ==
    /\ algo = "maxdist" /\ pc = "start"
    /\ users' = Sort(users)
    /\ pc' = "build"
    /\ UNCHANGED <<confVars, pairs, ignored, current_user, target_user,
                   exist_recent_message, retry, cur_checks, n_checks, answers_seen>>
    /\ UNCHANGED maxVars
    /\ UNCHANGED pbar
    /\ UNCHANGED outerVars

\* _build_distance_matrix: the empty matrix and get_public_channel_ids().
MaxListChannels ==
    /\ algo = "maxdist" /\ pc = "build"
    /\ \/ \E k \in 0..MaxChannels :
            /\ channel_ids' = [c \in 1..k |-> c]
            /\ channel_idx' = 1
            /\ u_distance_matrix' = EmptyMatrix(users)
            /\ channel_calls' = Append(channel_calls, ChannelCall("get_public_channel_ids", 0, "Ok"))
            /\ pc' = "scan"
       \/ /\ channel_calls' = Append(channel_calls, ChannelCall("get_public_channel_ids", 0, "Error"))
          /\ pc' = "aborted"
          /\ UNCHANGED <<channel_ids, channel_idx, u_distance_matrix>>
    /\ UNCHANGED <<confVars, users, pairs, ignored, current_user, target_user,
                   exist_recent_message, retry, cur_checks, n_checks, answers_seen,
                   working_users, u_distance_dict, bucket, shared_channels, cells_written,
                   cells_read>>
    /\ UNCHANGED pbar
    /\ UNCHANGED outerVars

\* Faulty variant of MaxScanChannel: a channel whose members cannot be fetched
\* is skipped and the builder goes on.
MaxScanChannel_SkipFailed ==
    /\ algo = "maxdist" /\ pc = "scan"
    /\ channel_idx <= Len(channel_ids)
    /\ \/ \E S \in SUBSET Members : \E answer \in Perms(ListOf(S)) :
            LET channel_users == Sort(answer)
            IN  /\ u_distance_matrix' = ScanChannel(u_distance_matrix, users, channel_users)
                /\ channel_idx' = channel_idx + 1
                /\ channel_calls' = Append(channel_calls,
                        ChannelCall("get_users_from_channel", channel_ids[channel_idx], "Ok"))
                /\ shared_channels' = CountShared(shared_channels, Range(answer))
                /\ cells_written' = cells_written \cup CellsOfChannel(users, channel_users)
                /\ pc' = "scan"
       \/ /\ channel_calls' = Append(channel_calls,
                  ChannelCall("get_users_from_channel", channel_ids[channel_idx], "Error"))
          /\ channel_idx' = channel_idx + 1
          /\ pc' = "scan"
          /\ UNCHANGED <<u_distance_matrix, shared_channels, cells_written>>
    /\ UNCHANGED <<confVars, users, pairs, ignored, current_user, target_user,
                   exist_recent_message, retry, cur_checks, n_checks, answers_seen,
                   working_users, channel_ids, u_distance_dict, bucket, cells_read>>
    /\ UNCHANGED pbar
    /\ UNCHANGED outerVars

\* Faulty variant of MaxScanChannel: the channels are visited from the last
\* one returned to the first.
MaxScanChannel_Reversed ==
    /\ algo = "maxdist" /\ pc = "scan"
    /\ channel_idx <= Len(channel_ids)
    /\ LET channel_id == channel_ids[Len(channel_ids) + 1 - channel_idx]
       IN \/ \E S \in SUBSET Members : \E answer \in Perms(ListOf(S)) :
                LET channel_users == Sort(answer)
                IN  /\ u_distance_matrix' = ScanChannel(u_distance_matrix, users, channel_users)
                    /\ channel_idx' = channel_idx + 1
                    /\ channel_calls' = Append(channel_calls,
                            ChannelCall("get_users_from_channel", channel_id, "Ok"))
                    /\ shared_channels' = CountShared(shared_channels, Range(answer))
                    /\ cells_written' = cells_written \cup CellsOfChannel(users, channel_users)
                    /\ pc' = "scan"
          \/ /\ channel_calls' = Append(channel_calls,
                      ChannelCall("get_users_from_channel", channel_id, "Error"))
             /\ pc' = "aborted"
             /\ UNCHANGED <<channel_idx, u_distance_matrix, shared_channels, cells_written>>
    /\ UNCHANGED <<confVars, users, pairs, ignored, current_user, target_user,
                   exist_recent_message, retry, cur_checks, n_checks, answers_seen,
                   working_users, channel_ids, u_distance_dict, bucket, cells_read>>
    /\ UNCHANGED pbar
    /\ UNCHANGED outerVars

\* One turn of the builder's loop: get_users_from_channel, sort, count.
MaxScanChannel ==
    /\ algo = "maxdist" /\ pc = "scan"
    /\ channel_idx <= Len(channel_ids)
    /\ \/ \E S \in SUBSET Members : \E answer \in Perms(ListOf(S)) :
            LET channel_users == Sort(answer)
            IN  /\ u_distance_matrix' = ScanChannel(u_distance_matrix, users, channel_users)
                /\ channel_idx' = channel_idx + 1
                /\ channel_calls' = Append(channel_calls,
                        ChannelCall("get_users_from_channel", channel_ids[channel_idx], "Ok"))
                /\ shared_channels' = CountShared(shared_channels, Range(answer))
                /\ cells_written' = cells_written \cup CellsOfChannel(users, channel_users)
                /\ pc' = "scan"
       \/ /\ channel_calls' = Append(channel_calls,
                  ChannelCall("get_users_from_channel", channel_ids[channel_idx], "Error"))
          /\ pc' = "aborted"
          /\ UNCHANGED <<channel_idx, u_distance_matrix, shared_channels, cells_written>>
    /\ UNCHANGED <<confVars, users, pairs, ignored, current_user, target_user,
                   exist_recent_message, retry, cur_checks, n_checks, answers_seen,
                   working_users, channel_ids, u_distance_dict, bucket, cells_read>>
    /\ UNCHANGED pbar
    /\ UNCHANGED outerVars

\* Faulty variant of MaxCopyShuffle: working_users is users itself, not a copy,
\* so the shuffle reorders the roster too.
MaxCopyShuffle_Alias ==
    /\ algo = "maxdist" /\ pc = "scan"
    /\ ~(channel_idx <= Len(channel_ids))
    /\ working_users' \in Perms(users)
    /\ users' = working_users'
    /\ pc' = "loop"
    /\ UNCHANGED <<confVars, pairs, ignored, current_user, target_user,
                   exist_recent_message, retry, cur_checks, n_checks, answers_seen,
                   channel_ids, channel_idx, u_distance_matrix, u_distance_dict, bucket,
                   matrixLog>>
    /\ pbar' = 0
    /\ UNCHANGED outerVars

\* The builder returns; working_users = users.copy(); random.shuffle(working_users)
MaxCopyShuffle ==
    /\ algo = "maxdist" /\ pc = "scan"
    /\ ~(channel_idx <= Len(channel_ids))
    /\ working_users' \in Perms(users)
    /\ pc' = "loop"
    /\ UNCHANGED <<confVars, users, pairs, ignored, current_user, target_user,
                   exist_recent_message, retry, cur_checks, n_checks, answers_seen,
                   channel_ids, channel_idx, u_distance_matrix, u_distance_dict, bucket,
                   matrixLog>>
    /\ pbar' = 0
    /\ UNCHANGED outerVars

\* while len(working_users) > 1: pop the current user, group the others by
\* distance, enter _search_pair_for_user (retry = 0).
MaxPop ==
    /\ algo = "maxdist" /\ pc = "loop"
    /\ Len(working_users) > 1
    /\ current_user' = Head(working_users)
    /\ working_users' = Tail(working_users)
    /\ u_distance_dict' = BuildUserDistanceDict(users, working_users', current_user',
                                                u_distance_matrix)
    /\ cells_read' = CellsOfGrouping(users, working_users', current_user')
    /\ retry' = 0
    /\ bucket' = 1
    /\ cur_checks' = <<>>
    /\ pc' = "search"
    /\ UNCHANGED <<confVars, users, pairs, ignored, target_user,
                   exist_recent_message, n_checks, answers_seen,
                   channel_ids, channel_idx, u_distance_matrix,
                   channel_calls, shared_channels, cells_written>>
    /\ UNCHANGED pbar
    /\ UNCHANGED outerVars

\* Top of the for loop over the grouping: draw and remove a candidate of the
\* group, then check it.
MaxBucketFirst ==
    /\ algo = "maxdist" /\ pc = "search"
    /\ bucket <= Len(u_distance_dict)
    /\ \E candidate_user \in Range(u_distance_dict[bucket].users) :
          /\ target_user' = candidate_user
          /\ u_distance_dict' = [u_distance_dict EXCEPT ![bucket].users = Remove(@, candidate_user)]
          /\ n_checks' = n_checks + 1
          /\ \/ \E ans \in BOOLEAN :
                  /\ exist_recent_message' = ans
                  /\ cur_checks' = Append(cur_checks, Check(current_user, candidate_user, Result(ans)))
                  /\ answers_seen' = answers_seen \cup {Result(ans)}
                  /\ pc' = "bucket"
             \/ /\ cur_checks' = Append(cur_checks, Check(current_user, candidate_user, "Error"))
                /\ answers_seen' = answers_seen \cup {"Error"}
                /\ pc' = "aborted"
                /\ UNCHANGED exist_recent_message
    /\ UNCHANGED <<confVars, users, pairs, ignored, current_user, retry,
                   working_users, channel_ids, channel_idx, u_distance_matrix, bucket,
                   matrixLog>>
    /\ UNCHANGED pbar
    /\ UNCHANGED outerVars

\* Faulty variant of MaxRetryCondition: the group is not tested for emptiness.
MaxRetryCondition_NoEmptyTest ==
    /\ exist_recent_message = TRUE
    /\ retry < backtrack_max_attempts

\* while exist_recent_message is True and retry < max_retries
\*       and len(users_same_distance) != 0
MaxRetryCondition ==
    /\ exist_recent_message = TRUE
    /\ retry < backtrack_max_attempts
    /\ Len(u_distance_dict[bucket].users) # 0

\* Faulty variant of MaxBucketRetry: the candidate drawn stays in its group.
MaxBucketRetry_NoRemove ==
    /\ algo = "maxdist" /\ pc = "bucket"
    /\ MaxRetryCondition
    /\ \E candidate_user \in Range(u_distance_dict[bucket].users) :
          /\ target_user' = candidate_user
          /\ u_distance_dict' = u_distance_dict
          /\ retry' = retry + 1
          /\ n_checks' = n_checks + 1
          /\ \/ \E ans \in BOOLEAN :
                  /\ exist_recent_message' = ans
                  /\ cur_checks' = Append(cur_checks, Check(current_user, candidate_user, Result(ans)))
                  /\ answers_seen' = answers_seen \cup {Result(ans)}
                  /\ pc' = "bucket"
             \/ /\ cur_checks' = Append(cur_checks, Check(current_user, candidate_user, "Error"))
                /\ answers_seen' = answers_seen \cup {"Error"}
                /\ pc' = "aborted"
                /\ UNCHANGED exist_recent_message
    /\ UNCHANGED <<confVars, users, pairs, ignored, current_user,
                   working_users, channel_ids, channel_idx, u_distance_matrix, bucket,
                   matrixLog>>
    /\ UNCHANGED pbar
    /\ UNCHANGED outerVars

\* One turn of the while loop inside a group: draw and remove another
\* candidate, count the retry, check again.
MaxBucketRetry ==
    /\ algo = "maxdist" /\ pc = "bucket"
    /\ MaxRetryCondition
    /\ \E candidate_user \in Range(u_distance_dict[bucket].users) :
          /\ target_user' = candidate_user
          /\ u_distance_dict' = [u_distance_dict EXCEPT ![bucket].users = Remove(@, candidate_user)]
          /\ retry' = retry + 1
          /\ n_checks' = n_checks + 1
          /\ \/ \E ans \in BOOLEAN :
                  /\ exist_recent_message' = ans
                  /\ cur_checks' = Append(cur_checks, Check(current_user, candidate_user, Result(ans)))
                  /\ answers_seen' = answers_seen \cup {Result(ans)}
                  /\ pc' = "bucket"
             \/ /\ cur_checks' = Append(cur_checks, Check(current_user, candidate_user, "Error"))
                /\ answers_seen' = answers_seen \cup {"Error"}
                /\ pc' = "aborted"
                /\ UNCHANGED exist_recent_message
    /\ UNCHANGED <<confVars, users, pairs, ignored, current_user,
                   working_users, channel_ids, channel_idx, u_distance_matrix, bucket,
                   matrixLog>>
    /\ UNCHANGED pbar
    /\ UNCHANGED outerVars

\* Faulty variant of MaxCommit: the candidate is returned whatever the check said.
MaxCommit_OnRecent ==
    /\ algo = "maxdist" /\ pc = "bucket"
    /\ ~MaxRetryCondition
    /\ working_users' = Remove(working_users, target_user)
    /\ pairs' = Append(pairs, <<current_user, target_user>>)
    /\ pc' = "loop"
    /\ UNCHANGED <<confVars, users, ignored, current_user, target_user,
                   exist_recent_message, retry, cur_checks, n_checks, answers_seen,
                   channel_ids, channel_idx, u_distance_matrix, u_distance_dict, bucket,
                   matrixLog>>
    /\ pbar' = pbar + 2
    /\ UNCHANGED outerVars

\* Faulty variant of MaxCommit: the candidate stays in working_users.
MaxCommit_NoRemove ==
    /\ algo = "maxdist" /\ pc = "bucket"
    /\ ~MaxRetryCondition
    /\ ~exist_recent_message
    /\ pairs' = Append(pairs, <<current_user, target_user>>)
    /\ pc' = "loop"
    /\ UNCHANGED <<confVars, users, ignored, current_user, target_user,
                   exist_recent_message, retry, cur_checks, n_checks, answers_seen>>
    /\ UNCHANGED maxVars
    /\ pbar' = pbar + 2
    /\ UNCHANGED outerVars

\* if not exist_recent_message: return candidate_user; the caller removes it
\* from working_users and appends the pair.
MaxCommit ==
    /\ algo = "maxdist" /\ pc = "bucket"
    /\ ~MaxRetryCondition
    /\ ~exist_recent_message
    /\ working_users' = Remove(working_users, target_user)
    /\ pairs' = Append(pairs, <<current_user, target_user>>)
    /\ pc' = "loop"
    /\ UNCHANGED <<confVars, users, ignored, current_user, target_user,
                   exist_recent_message, retry, cur_checks, n_checks, answers_seen,
                   channel_ids, channel_idx, u_distance_matrix, u_distance_dict, bucket,
                   matrixLog>>
    /\ pbar' = pbar + 2
    /\ UNCHANGED outerVars

\* Faulty variant of MaxIgnoreRetries: gives up after any group, budget left or not.
MaxIgnoreRetries_NoBudgetTest ==
    /\ algo = "maxdist" /\ pc = "bucket"
    /\ ~MaxRetryCondition
    /\ exist_recent_message
    /\ ignored' = Append(ignored, current_user)
    /\ pc' = "loop"
    /\ UNCHANGED <<confVars, users, pairs, current_user, target_user,
                   exist_recent_message, retry, cur_checks, n_checks, answers_seen>>
    /\ UNCHANGED maxVars
    /\ pbar' = pbar + 1
    /\ UNCHANGED outerVars

\* if retry >= max_retries: return None; the caller appends current_user to
\* _ignored.
MaxIgnoreRetries ==
    /\ algo = "maxdist" /\ pc = "bucket"
    /\ ~MaxRetryCondition
    /\ exist_recent_message
    /\ retry >= backtrack_max_attempts
    /\ ignored' = Append(ignored, current_user)
    /\ pc' = "loop"
    /\ UNCHANGED <<confVars, users, pairs, current_user, target_user,
                   exist_recent_message, retry, cur_checks, n_checks, answers_seen>>
    /\ UNCHANGED maxVars
    /\ pbar' = pbar + 1
    /\ UNCHANGED outerVars

\* Neither return is taken: the for loop goes on with the next group.
MaxNextBucket ==
    /\ algo = "maxdist" /\ pc = "bucket"
    /\ ~MaxRetryCondition
    /\ exist_recent_message
    /\ ~(retry >= backtrack_max_attempts)
    /\ bucket' = bucket + 1
    /\ pc' = "search"
    /\ UNCHANGED <<confVars, users, pairs, ignored, current_user, target_user,
                   exist_recent_message, retry, cur_checks, n_checks, answers_seen,
                   working_users, channel_ids, channel_idx, u_distance_matrix,
                   u_distance_dict, matrixLog>>
    /\ UNCHANGED pbar
    /\ UNCHANGED outerVars

\* The for loop ran out of groups: return None; the caller appends
\* current_user to _ignored.
MaxIgnoreExhausted ==
    /\ algo = "maxdist" /\ pc = "search"
    /\ ~(bucket <= Len(u_distance_dict))
    /\ ignored' = Append(ignored, current_user)
    /\ pc' = "loop"
    /\ UNCHANGED <<confVars, users, pairs, current_user, target_user,
                   exist_recent_message, retry, cur_checks, n_checks, answers_seen>>
    /\ UNCHANGED maxVars
    /\ pbar' = pbar + 1
    /\ UNCHANGED outerVars

\* Loop exit: pbar.close(), and the method returns.
MaxFinish ==
    /\ algo = "maxdist" /\ pc = "loop"
    /\ ~(Len(working_users) > 1)
    /\ pc' = "done"
    /\ UNCHANGED <<confVars, users, pairs, ignored, current_user, target_user,
                   exist_recent_message, retry, cur_checks, n_checks, answers_seen>>
    /\ UNCHANGED maxVars
    /\ UNCHANGED pbar
    /\ UNCHANGED outerVars

----------------------------------------------------------------------------
\* SlackWrapper.get_public_channel_ids and SlackWrapper.get_users_from_channel
\* (SlackConnector.get_users_from_channel is the same code).
\* The service holds the listing as a sequence of pages; the response to a
\* call carries one page, and its next_cursor is non-empty unless the page is
\* the last one.

\* The lists and locals of a pairing run that has not begun.
PairingLocalsEmpty ==
    /\ roster = {}
    /\ users = <<>>
    /\ shared_channels = [ab \in RosterPairs({}) |-> 0]
    /\ working_users = <<>>
    /\ pairs = <<>>
    /\ ignored = <<>>
    /\ current_user = 0
    /\ target_user = 0
    /\ exist_recent_message = FALSE
    /\ retry = 0
    /\ channel_ids = <<>>
    /\ channel_idx = 0
    /\ u_distance_matrix = <<>>
    /\ u_distance_dict = <<>>
    /\ bucket = 0
    /\ cur_checks = <<>>
    /\ n_checks = 0
    /\ answers_seen = {}
    /\ pbar = 0
    /\ channel_calls = <<>>
    /\ cells_written = {}
    /\ cells_read = {}
    /\ pc = "idle"

\* No pairing run is in progress.
PairingIdle ==
    /\ algo = "none"
    /\ backtrack_max_attempts = 0
    /\ PairingLocalsEmpty
    /\ n_runs = 0

\* The lists of at most n entries over the ids S.
ListsUpTo(S, n) == UNION {[1..k -> S] : k \in 0..n}

\* The listings the service can hold: at least one page (every call is
\* answered with a page), at most MaxPages.
Listings ==
    UNION {[1..k -> ListsUpTo(1..MaxPageIds, MaxPageLen)] : k \in 1..MaxPages}

\* response['channels']: the channel objects of a page.
ChannelObjects(page) == [i \in 1..Len(page) |-> [id |-> page[i]]]

\* response['response_metadata']['next_cursor'] of the page held by response.
NextCursor == IF response < Len(api_pages) THEN response + 1 ELSE 0

\* conversations_list(...): the first page; channels = response['channels'].
ChannelIdsCall ==
    /\ api_method = "conversations_list" /\ wpc = "call"
    /\ api_calls' = api_calls + 1
    /\ \/ /\ response' = 1
          /\ channels' = ChannelObjects(api_pages[1])
          /\ wpc' = "paging"
       \/ /\ wpc' = "raised"
          /\ UNCHANGED <<response, channels>>
    /\ UNCHANGED <<api_method, api_pages, ignore_users, wrapper_result>>
    /\ UNCHANGED <<pairingVars, n_runs, appVars, twinVars>>

\* while response['response_metadata']['next_cursor']: the next page is
\* fetched into response; channels is not assigned.
ChannelIdsNextPage ==
    /\ api_method = "conversations_list" /\ wpc = "paging"
    /\ NextCursor # 0
    /\ api_calls' = api_calls + 1
    /\ \/ /\ response' = NextCursor
          /\ wpc' = "paging"
       \/ /\ wpc' = "raised"
          /\ UNCHANGED response
    /\ UNCHANGED <<api_method, api_pages, ignore_users, channels, wrapper_result>>
    /\ UNCHANGED <<pairingVars, n_runs, appVars, twinVars>>

\* channel_ids = [chanel['id'] for chanel in channels]; return channel_ids
ChannelIdsReturn ==
    /\ api_method = "conversations_list" /\ wpc = "paging"
    /\ NextCursor = 0
    /\ wrapper_result' = [i \in 1..Len(channels) |-> channels[i].id]
    /\ wpc' = "returned"
    /\ UNCHANGED <<api_method, api_pages, ignore_users, response, channels, api_calls>>
    /\ UNCHANGED <<pairingVars, n_runs, appVars, twinVars>>

\* conversations_members(channel = channel_id): the first page;
\* chanel_users = response['members'].
ChannelUsersCall ==
    /\ api_method = "conversations_members" /\ wpc = "call"
    /\ api_calls' = api_calls + 1
    /\ \/ /\ response' = 1
          /\ channels' = api_pages[1]
          /\ wpc' = "paging"
       \/ /\ wpc' = "raised"
          /\ UNCHANGED <<response, channels>>
    /\ UNCHANGED <<api_method, api_pages, ignore_users, wrapper_result>>
    /\ UNCHANGED <<pairingVars, n_runs, appVars, twinVars>>

\* Faulty variant of ChannelUsersNextPage: the members of the page are dropped.
ChannelUsersNextPage_NoExtend ==
    /\ api_method = "conversations_members" /\ wpc = "paging"
    /\ NextCursor # 0
    /\ api_calls' = api_calls + 1
    /\ \/ /\ response' = NextCursor
          /\ channels' = channels
          /\ wpc' = "paging"
       \/ /\ wpc' = "raised"
          /\ UNCHANGED <<response, channels>>
    /\ UNCHANGED <<api_method, api_pages, ignore_users, wrapper_result>>
    /\ UNCHANGED <<pairingVars, n_runs, appVars, twinVars>>

\* while response['response_metadata']['next_cursor']: the next page is
\* fetched and chanel_users.extend(response['members']).
ChannelUsersNextPage ==
    /\ api_method = "conversations_members" /\ wpc = "paging"
    /\ NextCursor # 0
    /\ api_calls' = api_calls + 1
    /\ \/ /\ response' = NextCursor
          /\ channels' = channels \o api_pages[NextCursor]
          /\ wpc' = "paging"
       \/ /\ wpc' = "raised"
          /\ UNCHANGED <<response, channels>>
    /\ UNCHANGED <<api_method, api_pages, ignore_users, wrapper_result>>
    /\ UNCHANGED <<pairingVars, n_runs, appVars, twinVars>>

\* users = [elem for elem in chanel_users if elem not in ignore_users]; return users
ChannelUsersReturn ==
    /\ api_method = "conversations_members" /\ wpc = "paging"
    /\ NextCursor = 0
    /\ wrapper_result' = LET Kept(elem) == elem \notin ignore_users
                         IN  SelectSeq(channels, Kept)
    /\ wpc' = "returned"
    /\ UNCHANGED <<api_method, api_pages, ignore_users, response, channels, api_calls>>
    /\ UNCHANGED <<pairingVars, n_runs, appVars, twinVars>>

NextWrapper ==
    \/ ChannelIdsCall
    \/ ChannelIdsNextPage
    \/ ChannelIdsReturn
    \/ ChannelUsersCall
    \/ ChannelUsersNextPage
    \/ ChannelUsersReturn

\* A wrapper method is entered: get_public_channel_ids(), or
\* get_users_from_channel(channel_id, ignore_users) with any ids to ignore.
InitWrapper ==
    /\ PairingIdle
    /\ api_pages \in Listings
    /\ \/ api_method = "conversations_list" /\ ignore_users = {}
       \/ api_method = "conversations_members" /\ ignore_users \in SUBSET (1..MaxPageIds)
    /\ response = 0
    /\ channels = <<>>
    /\ wrapper_result = <<>>
    /\ api_calls = 0
    /\ wpc = "call"
    /\ AppIdle
    /\ TwinIdle

SpecWrapper == InitWrapper /\ [][NextWrapper]_vars

----------------------------------------------------------------------------
\* File names (utils.get_history_filename, utils.get_most_recent_file_history).
\* A name is a sequence of characters.

\* The characters that occur in the file names, in code point order.
CharOrder ==
    <<"-", ".", "0", "1", "2", "3", "4", "5", "6", "7", "8", "9",
      "D", "E", "M", "O", "S", "T",
      "a", "b", "c", "e", "i", "j", "n", "o", "p", "s", "t", "y">>

\* The rank of a character in code point order.
CodePoint(c) == CHOOSE i \in 1..Len(CharOrder) : CharOrder[i] = c

\* s < t on Python strings.
RECURSIVE StrLess(_, _)
StrLess(s, t) ==
    IF t = <<>> THEN FALSE
    ELSE IF s = <<>> THEN TRUE
    ELSE IF Head(s) = Head(t) THEN StrLess(Tail(s), Tail(t))
    ELSE CodePoint(Head(s)) < CodePoint(Head(t))

\* s.endswith(t)
EndsWith(s, t) ==
    /\ Len(t) <= Len(s)
    /\ SubSeq(s, Len(s) - Len(t) + 1, Len(s)) = t

\* The decimal digit d as a character.
Digit(d) == <<"0", "1", "2", "3", "4", "5", "6", "7", "8", "9">>[d + 1]

TwoDigits(n) == <<Digit(n \div 10), Digit(n % 10)>>

\* The day the clock of the model runs in, as %Y%m%d.
ClockDate == <<"2", "0", "2", "4", "0", "1", "0", "1">>

\* datetime.now().strftime('%Y%m%d-%H%M') at minute t of that day.
Strftime(t) == ClockDate \o <<"-">> \o TwoDigits(t \div 60) \o TwoDigits(t % 60)

\* utils.get_history_filename
GetHistoryFilename(is_test_mode, current_config_file, suffix) ==
    LET tail_file_name == IF suffix # <<>> THEN suffix \o <<"-">> ELSE suffix
        with_config    == tail_file_name \o current_config_file
        with_mode      == IF is_test_mode
                          THEN with_config \o <<"-", "T", "E", "S", "T", "M", "O", "D", "E">>
                          ELSE with_config
    IN  with_mode \o <<".", "j", "s", "o", "n">>

\* The value None of get_most_recent_file_history (no file name is empty).
NoFile == <<>>

\* dir_list.sort(reverse = True)
RECURSIVE SortReverse(_)
SortReverse(dir_list) ==
    IF dir_list = {} THEN <<>>
    ELSE LET top == CHOOSE f \in dir_list : \A g \in dir_list : g = f \/ StrLess(g, f)
         IN  <<top>> \o SortReverse(dir_list \ {top})

\* utils.get_most_recent_file_history: the first name of the reverse-sorted
\* listing that ends with tail_file_name.
GetMostRecentFileHistory(dir_list, tail_file_name) ==
    LET sorted  == SortReverse(dir_list)
        matches == {i \in 1..Len(sorted) : EndsWith(sorted[i], tail_file_name)}
    IN  IF matches = {} THEN NoFile
        ELSE sorted[CHOOSE i \in matches : \A j \in matches : i <= j]

\* json.dump(pairs, file): each pair becomes a 2-element array.
JsonDump(ps) == [i \in 1..Len(ps) |-> <<ps[i][1], ps[i][2]>>]

----------------------------------------------------------------------------
\* main: manage_invitation_action and manage_reminder_action.

\* The configuration file name the tests use.
ConfFile == <<"p", "y", "t", "e", "s", "t", ".", "i", "n", "i">>

\* Configuration file names of one installation, one of them the ending of
\* another.
ConfFiles == {<<"a", ".", "i", "n", "i">>, <<"b", "a", ".", "i", "n", "i">>}

\* The pairs an earlier run with 2k members has committed (up to the
\* naming of the members).
PairsOfRun(k) == [i \in 1..k |-> <<2 * i - 1, 2 * i>>]

\* The file an invitation run at minute t leaves.
HistoryFile(tm, c, t, k) ==
    [name |-> GetHistoryFilename(tm, c, Strftime(t)), content |-> JsonDump(PairsOfRun(k))]

\* The directories of at most n of the given files, no name twice.
RECURSIVE DirsUpTo(_, _)
DirsUpTo(files, n) ==
    IF n = 0 THEN {{}}
    ELSE LET D == DirsUpTo(files, n - 1)
         IN  D \cup UNION {{d \cup {f} : f \in {g \in files : \A h \in d : h.name # g.name}} : d \in D}

\* The files in the directory at the start: an invitation run, which reads
\* none, starts from an empty one; a reminder run looks through up to MaxFiles.
MaxFilesFor(a) == IF a = "invitation" THEN 0 ELSE MaxFiles

\* The outcomes of one send_message_to_pairs call: it returns, or
\* conversations_open fails, or chat_postMessage (not called in test mode) fails.
SendOutcomes(tm) == IF tm THEN {"ok", "open_failed"} ELSE {"ok", "open_failed", "post_failed"}

\* Faulty variant of SendMessageToPairs: the message is posted in test mode too.
SendMessageToPairs_AlwaysPost(tm, pair, outcome) ==
    [pair   |-> pair,
     opened |-> TRUE,
     posted |-> outcome # "open_failed",
     failed |-> outcome # "ok"]

\* send_message_to_pairs(pair, message): conversations_open, then
\* chat_postMessage if not test_mode; the record of the call.
SendMessageToPairs(tm, pair, outcome) ==
    [pair   |-> pair,
     opened |-> TRUE,
     posted |-> outcome # "open_failed" /\ ~tm,
     failed |-> outcome # "ok"]

\* exist_recent_message_exchange_in_pairs(pair, backtrack_days, 5)
ReminderCheck(pair, res) ==
    [pair |-> pair, days |-> BacktrackDays, limit |-> ReminderLimit, result |-> res]

\* users = slack_connector.get_users_from_channel(...); a failure exits.
InvFetchUsers ==
    /\ action = "invitation" /\ apc = "start"
    /\ \/ \E n \in RosterSizes("inline") :
             /\ users' = [i \in 1..n |-> i]
             /\ roster' = 1..n
             /\ shared_channels' = [ab \in RosterPairs(1..n) |-> 0]
             /\ pc' = "start"
             /\ apc' = "invite"
       \/ /\ apc' = "exit"
          /\ UNCHANGED <<users, roster, shared_channels, pc>>
    /\ UNCHANGED <<algo, backtrack_max_attempts, working_users, pairs, ignored,
                   current_user, target_user, exist_recent_message, retry,
                   channel_ids, channel_idx, u_distance_matrix, u_distance_dict,
                   bucket, cur_checks, n_checks, answers_seen, channel_calls,
                   cells_written, cells_read, pbar>>
    /\ UNCHANGED <<n_runs, wrapVars, twinVars>>
    /\ UNCHANGED <<action, test_mode, conf, now, history_dir, file_history,
                   history_pairs, pair_idx, sends, rem_checks, reminder_sent, written>>

\* Faulty variant of InvSend: a failed send ends the action.
InvSend_FailureFatal ==
    /\ action = "invitation" /\ apc = "invite" /\ pc = "done"
    /\ pair_idx < Len(pairs)
    /\ \E outcome \in SendOutcomes(test_mode) :
          LET call == SendMessageToPairs(test_mode, pairs[pair_idx + 1], outcome)
          IN  /\ sends' = Append(sends, call)
              /\ apc' = IF call.failed THEN "exit" ELSE apc
    /\ pair_idx' = pair_idx + 1
    /\ UNCHANGED <<action, test_mode, conf, now, history_dir, file_history,
                   history_pairs, rem_checks, reminder_sent, written>>
    /\ UNCHANGED <<pairingVars, n_runs, wrapVars, twinVars>>

\* Faulty variant of InvSend: the pairs made so far are sent to while the
\* pairing loop still runs.
InvSend_WhilePairing ==
    /\ action = "invitation" /\ apc = "invite" /\ pc \in {"loop", "done"}
    /\ pair_idx < Len(pairs)
    /\ \E outcome \in SendOutcomes(test_mode) :
          sends' = Append(sends, SendMessageToPairs(test_mode, pairs[pair_idx + 1], outcome))
    /\ pair_idx' = pair_idx + 1
    /\ UNCHANGED <<action, test_mode, conf, now, history_dir, file_history,
                   history_pairs, rem_checks, reminder_sent, written, apc>>
    /\ UNCHANGED <<pairingVars, n_runs, wrapVars, twinVars>>

\* for pair in pairs: try send_message_to_pairs(pair, ...) except: warning
InvSend ==
    /\ action = "invitation" /\ apc = "invite" /\ pc = "done"
    /\ pair_idx < Len(pairs)
    /\ \E outcome \in SendOutcomes(test_mode) :
          sends' = Append(sends, SendMessageToPairs(test_mode, pairs[pair_idx + 1], outcome))
    /\ pair_idx' = pair_idx + 1
    /\ UNCHANGED <<action, test_mode, conf, now, history_dir, file_history,
                   history_pairs, rem_checks, reminder_sent, written, apc>>
    /\ UNCHANGED <<pairingVars, n_runs, wrapVars, twinVars>>

\* Faulty variant of InvWriteHistory: the pairs whose send failed are left out.
InvWriteHistory_SentOnly ==
    /\ action = "invitation" /\ apc = "invite" /\ pc = "done"
    /\ pair_idx = Len(pairs)
    /\ LET tail_file_name == GetHistoryFilename(test_mode, conf, Strftime(now))
           Sent(p) == \E i \in 1..Len(sends) : sends[i].pair = p /\ ~sends[i].failed
       IN  /\ history_dir' = {f \in history_dir : f.name # tail_file_name}
                               \cup {[name |-> tail_file_name, content |-> JsonDump(SelectSeq(pairs, Sent))]}
           /\ written' = Append(written, tail_file_name)
    /\ apc' = "end"
    /\ UNCHANGED <<action, test_mode, conf, now, file_history, history_pairs,
                   pair_idx, sends, rem_checks, reminder_sent>>
    /\ UNCHANGED <<pairingVars, n_runs, wrapVars, twinVars>>

\* After the loop: open(history_path + tail_file_name, 'w'); json.dump(pairs, file)
InvWriteHistory ==
    /\ action = "invitation" /\ apc = "invite" /\ pc = "done"
    /\ pair_idx = Len(pairs)
    /\ LET tail_file_name == GetHistoryFilename(test_mode, conf, Strftime(now))
       IN  /\ history_dir' = {f \in history_dir : f.name # tail_file_name}
                               \cup {[name |-> tail_file_name, content |-> JsonDump(pairs)]}
           /\ written' = Append(written, tail_file_name)
    /\ apc' = "end"
    /\ UNCHANGED <<action, test_mode, conf, now, file_history, history_pairs,
                   pair_idx, sends, rem_checks, reminder_sent>>
    /\ UNCHANGED <<pairingVars, n_runs, wrapVars, twinVars>>

\* file_history = get_most_recent_file_history(history_path, tail_file_name);
\* None: sys.exit(0); else the file is opened and reminder_sent = 0.
RemLookup ==
    /\ action = "reminder" /\ apc = "start"
    /\ LET tail_file_name == GetHistoryFilename(test_mode, conf, <<>>)
           found == GetMostRecentFileHistory({f.name : f \in history_dir}, tail_file_name)
       IN  /\ file_history' = found
           /\ IF found = NoFile
              THEN /\ apc' = "exit"
                   /\ UNCHANGED history_pairs
              ELSE /\ apc' = "remind"
                   /\ history_pairs' = (CHOOSE f \in history_dir : f.name = found).content
    /\ UNCHANGED <<action, test_mode, conf, now, history_dir, pair_idx, sends,
                   rem_checks, reminder_sent, written>>
    /\ UNCHANGED <<pairingVars, n_runs, wrapVars, twinVars>>

\* Faulty variant of RemPair: a failed send is counted as a reminder sent.
RemPair_CountFailed ==
    /\ action = "reminder" /\ apc = "remind"
    /\ pair_idx < Len(history_pairs)
    /\ LET pair == history_pairs[pair_idx + 1]
       IN  \/ /\ rem_checks' = Append(rem_checks, ReminderCheck(pair, "Error"))
              /\ apc' = "crashed"
              /\ UNCHANGED <<pair_idx, sends, reminder_sent>>
           \/ /\ rem_checks' = Append(rem_checks, ReminderCheck(pair, "True"))
              /\ pair_idx' = pair_idx + 1
              /\ UNCHANGED <<sends, reminder_sent, apc>>
           \/ /\ rem_checks' = Append(rem_checks, ReminderCheck(pair, "False"))
              /\ \E outcome \in SendOutcomes(test_mode) :
                    sends' = Append(sends, SendMessageToPairs(test_mode, pair, outcome))
              /\ reminder_sent' = reminder_sent + 1
              /\ pair_idx' = pair_idx + 1
              /\ UNCHANGED apc
    /\ UNCHANGED <<action, test_mode, conf, now, history_dir, file_history,
                   history_pairs, written>>
    /\ UNCHANGED <<pairingVars, n_runs, wrapVars, twinVars>>

\* One turn of `for pair in json.load(file)`: the check (its failure is not
\* caught), and if it answers False the send inside try/except, counted in
\* reminder_sent when it returns.
RemPair ==
    /\ action = "reminder" /\ apc = "remind"
    /\ pair_idx < Len(history_pairs)
    /\ LET pair == history_pairs[pair_idx + 1]
       IN  \/ /\ rem_checks' = Append(rem_checks, ReminderCheck(pair, "Error"))
              /\ apc' = "crashed"
              /\ UNCHANGED <<pair_idx, sends, reminder_sent>>
           \/ /\ rem_checks' = Append(rem_checks, ReminderCheck(pair, "True"))
              /\ pair_idx' = pair_idx + 1
              /\ UNCHANGED <<sends, reminder_sent, apc>>
           \/ /\ rem_checks' = Append(rem_checks, ReminderCheck(pair, "False"))
              /\ \E outcome \in SendOutcomes(test_mode) :
                    LET call == SendMessageToPairs(test_mode, pair, outcome)
                    IN  /\ sends' = Append(sends, call)
                        /\ reminder_sent' = IF call.failed THEN reminder_sent
                                                            ELSE reminder_sent + 1
              /\ pair_idx' = pair_idx + 1
              /\ UNCHANGED apc
    /\ UNCHANGED <<action, test_mode, conf, now, history_dir, file_history,
                   history_pairs, written>>
    /\ UNCHANGED <<pairingVars, n_runs, wrapVars, twinVars>>

\* The loop over the file is over: the count is logged.
RemEnd ==
    /\ action = "reminder" /\ apc = "remind"
    /\ pair_idx = Len(history_pairs)
    /\ apc' = "end"
    /\ UNCHANGED <<action, test_mode, conf, now, history_dir, file_history,
                   history_pairs, pair_idx, sends, rem_checks, reminder_sent, written>>
    /\ UNCHANGED <<pairingVars, n_runs, wrapVars, twinVars>>

NextInline ==
    \/ InlineShuffle
    \/ InlinePop
    \/ InlineFirstCheck
    \/ InlineRetry
    \/ InlineIgnore
    \/ InlineCommit
    \/ InlineFinish

NextReminder ==
    \/ RemLookup
    \/ RemPair
    \/ RemEnd

NextApp ==
    \/ InvFetchUsers
    \/ NextInline
    \/ InvSend
    \/ InvWriteHistory
    \/ NextReminder

\* main is entered with an action, a test-mode flag and a configuration file;
\* the history directory holds files that earlier invitation runs of the
\* given configuration files have left, none later than now.
InitApp(actions, confs) ==
    /\ action \in actions
    /\ test_mode \in BOOLEAN
    /\ conf \in confs
    /\ now \in 0..MaxClock
    /\ history_dir \in DirsUpTo({HistoryFile(tm, c, t, k) :
                                     tm \in BOOLEAN, c \in confs, t \in 0..now,
                                     k \in 0..MaxHistoryPairs},
                                 MaxFilesFor(action))
    /\ file_history = NoFile
    /\ history_pairs = <<>>
    /\ pair_idx = 0
    /\ sends = <<>>
    /\ rem_checks = <<>>
    /\ reminder_sent = 0
    /\ written = <<>>
    /\ apc = "start"
    /\ IF action = "invitation"
       THEN algo = "inline" /\ backtrack_max_attempts \in 0..MaxAttempts
       ELSE algo = "none" /\ backtrack_max_attempts = 0
    /\ PairingLocalsEmpty
    /\ n_runs = 0
    /\ WrapperIdle
    /\ TwinIdle

\* One run of main, either action, with the configuration file of the tests.
SpecApp == InitApp({"invitation", "reminder"}, {ConfFile}) /\ [][NextApp]_vars

\* Reminder runs of an installation with several configuration files.
SpecHistory == InitApp({"reminder"}, ConfFiles) /\ [][NextReminder]_vars

----------------------------------------------------------------------------
\* The inline pairing loop of manage_invitation_action run beside
\* SimpleGeneratorAlgorithm.compute_pairs_from_users on the same inputs.
\* Simple takes a step; the inline loop then takes its own next step, and is
\* given what Simple was given in that step: the shuffled list, the draw of
\* random.choice, the answer of the service.

\* How far a loop has got: its position, the checks issued, the members placed.
Position == <<pc, n_checks, Len(pairs) + Len(ignored)>>
InlPosition == <<inl_pc, inl_n_checks, Len(inl_pairs) + Len(inl_ignored)>>

\* The inline loop has taken as many steps as Simple.
InSync == Position = InlPosition

\* random.choice(own) on the draw that gave Simple its target_user: the
\* same position of the list (a list of another length gets some member).
SameChoice(own) ==
    IF Len(own) = Len(users) THEN {own[Index(users, target_user) + 1]}
                             ELSE Range(own)

\* The answer the service gave to the last check of Simple.
\* random.shuffle(users) with the outcome Simple's shuffle had: the list
\* Simple holds, if it is a reordering of the loop's own list.
SameShuffle(own) ==
    {s \in {users} :
        /\ Len(s) = Len(own)
        /\ \A x \in Range(own) \cup Range(s) :
              Cardinality({i \in 1..Len(s) : s[i] = x})
                  = Cardinality({i \in 1..Len(own) : own[i] = x})}

LastAnswer == cur_checks[Len(cur_checks)].result

LeadShuffle    == InSync /\ SimpleShuffle
LeadPop        == InSync /\ SimplePop
LeadFirstCheck == InSync /\ SimpleFirstCheck
LeadRetry      == InSync /\ SimpleRetry
LeadIgnore     == InSync /\ SimpleIgnore
LeadCommit     == InSync /\ SimpleCommit
LeadFinish     == InSync /\ SimpleFinish

\* random.shuffle(users), with the outcome Simple had.
FollowShuffle ==
    /\ ~InSync /\ inl_pc = "start"
    /\ inl_users' \in SameShuffle(inl_users)
    /\ inl_pc' = "loop"
    /\ UNCHANGED <<inl_pairs, inl_ignored, inl_first, inl_second,
                   inl_exist_recent_message, inl_retry, inl_checks, inl_n_checks>>
    /\ UNCHANGED <<pairingVars, n_runs, wrapVars, appVars>>

\* while len(users) > 1: first = users.pop(0); second = random.choice(users)
FollowPop ==
    /\ ~InSync /\ inl_pc = "loop"
    /\ Len(inl_users) > 1
    /\ inl_first' = Head(inl_users)
    /\ inl_users' = Tail(inl_users)
    /\ inl_second' \in SameChoice(inl_users')
    /\ inl_checks' = <<>>
    /\ inl_pc' = "check"
    /\ UNCHANGED <<inl_pairs, inl_ignored, inl_exist_recent_message, inl_retry,
                   inl_n_checks>>
    /\ UNCHANGED <<pairingVars, n_runs, wrapVars, appVars>>

\* while exist_recent_message is True and retry < backtrack_max_attempts
FollowRetryCondition ==
    inl_exist_recent_message = TRUE /\ inl_retry < backtrack_max_attempts

\* The first check of (first, second), then retry = 0.
FollowFirstCheck ==
    /\ ~InSync /\ inl_pc = "check"
    /\ cur_checks # <<>>
    /\ inl_n_checks' = inl_n_checks + 1
    /\ inl_checks' = Append(inl_checks, Check(inl_first, inl_second, LastAnswer))
    /\ IF LastAnswer = "Error"
       THEN /\ inl_pc' = "aborted"
            /\ UNCHANGED <<inl_exist_recent_message, inl_retry>>
       ELSE /\ inl_exist_recent_message' = (LastAnswer = "True")
            /\ inl_retry' = 0
            /\ inl_pc' = "retry"
    /\ UNCHANGED <<inl_users, inl_pairs, inl_ignored, inl_first, inl_second>>
    /\ UNCHANGED <<pairingVars, n_runs, wrapVars, appVars>>

\* One turn of the retry loop: resample, count, check again.
FollowRetry ==
    /\ ~InSync /\ inl_pc = "retry"
    /\ FollowRetryCondition
    /\ cur_checks # <<>>
    /\ inl_second' \in SameChoice(inl_users)
    /\ inl_retry' = inl_retry + 1
    /\ inl_n_checks' = inl_n_checks + 1
    /\ inl_checks' = Append(inl_checks, Check(inl_first, inl_second', LastAnswer))
    /\ IF LastAnswer = "Error"
       THEN /\ inl_pc' = "aborted"
            /\ UNCHANGED inl_exist_recent_message
       ELSE /\ inl_exist_recent_message' = (LastAnswer = "True")
            /\ inl_pc' = "retry"
    /\ UNCHANGED <<inl_users, inl_pairs, inl_ignored, inl_first>>
    /\ UNCHANGED <<pairingVars, n_runs, wrapVars, appVars>>

\* if exist_recent_message: ignored.append(first)
FollowIgnore ==
    /\ ~InSync /\ inl_pc = "retry"
    /\ ~FollowRetryCondition
    /\ inl_exist_recent_message
    /\ inl_ignored' = Append(inl_ignored, inl_first)
    /\ inl_pc' = "loop"
    /\ UNCHANGED <<inl_users, inl_pairs, inl_first, inl_second,
                   inl_exist_recent_message, inl_retry, inl_checks, inl_n_checks>>
    /\ UNCHANGED <<pairingVars, n_runs, wrapVars, appVars>>

\* Faulty variant of FollowCommit: the pair is stored second first.
FollowCommit_Swapped ==
    /\ ~InSync /\ inl_pc = "retry"
    /\ ~FollowRetryCondition
    /\ ~inl_exist_recent_message
    /\ inl_users' = Remove(inl_users, inl_second)
    /\ inl_pairs' = Append(inl_pairs, <<inl_second, inl_first>>)
    /\ inl_pc' = "loop"
    /\ UNCHANGED <<inl_ignored, inl_first, inl_second, inl_exist_recent_message,
                   inl_retry, inl_checks, inl_n_checks>>
    /\ UNCHANGED <<pairingVars, n_runs, wrapVars, appVars>>

\* else: users.remove(second); pairs.append((first, second))
FollowCommit ==
    /\ ~InSync /\ inl_pc = "retry"
    /\ ~FollowRetryCondition
    /\ ~inl_exist_recent_message
    /\ inl_users' = Remove(inl_users, inl_second)
    /\ inl_pairs' = Append(inl_pairs, <<inl_first, inl_second>>)
    /\ inl_pc' = "loop"
    /\ UNCHANGED <<inl_ignored, inl_first, inl_second, inl_exist_recent_message,
                   inl_retry, inl_checks, inl_n_checks>>
    /\ UNCHANGED <<pairingVars, n_runs, wrapVars, appVars>>

\* Loop exit: ignored.extend(users)
FollowFinish ==
    /\ ~InSync /\ inl_pc = "loop"
    /\ ~(Len(inl_users) > 1)
    /\ inl_ignored' = inl_ignored \o inl_users
    /\ inl_pc' = "done"
    /\ UNCHANGED <<inl_users, inl_pairs, inl_first, inl_second,
                   inl_exist_recent_message, inl_retry, inl_checks, inl_n_checks>>
    /\ UNCHANGED <<pairingVars, n_runs, wrapVars, appVars>>

NextFollow ==
    \/ FollowShuffle
    \/ FollowPop
    \/ FollowFirstCheck
    \/ FollowRetry
    \/ FollowIgnore
    \/ FollowCommit
    \/ FollowFinish

NextTwin ==
    \/ LeadShuffle
    \/ LeadPop
    \/ LeadFirstCheck
    \/ LeadRetry
    \/ LeadIgnore
    \/ LeadCommit
    \/ LeadFinish
    \/ NextFollow

\* A fresh SimpleGeneratorAlgorithm instance and the inline loop (pairs = [],
\* ignored = []) are handed the same list.
InitTwin ==
    /\ InitPairing("simple", RosterSizes("simple"))
    /\ inl_users = users
    /\ inl_pairs = <<>>
    /\ inl_ignored = <<>>
    /\ inl_first = 0
    /\ inl_second = 0
    /\ inl_exist_recent_message = FALSE
    /\ inl_retry = 0
    /\ inl_checks = <<>>
    /\ inl_n_checks = 0
    /\ inl_pc = "start"

SpecTwin == InitTwin /\ [][NextTwin]_vars

----------------------------------------------------------------------------
NextSimple ==
    \/ SimpleShuffle
    \/ SimplePop
    \/ SimpleFirstCheck
    \/ SimpleRetry
    \/ SimpleIgnore
    \/ SimpleCommit
    \/ SimpleFinish
    \/ InlineShuffle
    \/ InlinePop
    \/ InlineFirstCheck
    \/ InlineRetry
    \/ InlineIgnore
    \/ InlineCommit
    \/ InlineFinish

NextMax ==
    \/ MaxSort
    \/ MaxListChannels
    \/ MaxScanChannel
    \/ MaxCopyShuffle
    \/ MaxPop
    \/ MaxBucketFirst
    \/ MaxBucketRetry
    \/ MaxCommit
    \/ MaxIgnoreRetries
    \/ MaxNextBucket
    \/ MaxIgnoreExhausted
    \/ MaxFinish

Next == NextSimple \/ NextMax

\* All three pairing loops.
Spec == Init /\ [][Next]_vars

\* All three pairing loops, run to the end: the program is sequential, every
\* remote call returns or fails, so a step that can be taken is taken.
FairSpec == Init /\ [][Next]_vars /\ WF_vars(Next)

\* The simple pairing: SimpleGeneratorAlgorithm and the inline loop.
InitSimple == \E a \in {"simple", "inline"} : InitFor(a, RosterSizes(a))
SpecSimple == InitSimple /\ [][NextSimple]_vars

\* The Max-Distance pairing.
InitMax == InitFor("maxdist", RosterSizes("maxdist"))
SpecMax == InitMax /\ [][NextMax]_vars

\* The Max-Distance pairing on a roster one member larger.
InitMaxLarge == InitFor("maxdist", {MaxDistanceUsers + 1})
SpecMaxLarge == InitMaxLarge /\ [][NextMax]_vars

\* Repeated calls of the Simple strategy on one instance.
NextRerun ==
    \/ SimpleShuffle
    \/ SimplePop
    \/ SimpleFirstCheck
    \/ SimpleRetry
    \/ SimpleIgnore
    \/ SimpleCommit
    \/ SimpleFinish
    \/ SimpleCallAgain

InitRerun == InitFor("simple", 0..MaxRerunUsers)
SpecRerun == InitRerun /\ [][NextRerun]_vars

----------------------------------------------------------------------------
\* Notions the properties share.

RECURSIVE Flatten(_)
Flatten(ps) == IF ps = <<>> THEN <<>> ELSE Head(ps) \o Flatten(Tail(ps))

Count(s, m) == Cardinality({i \in 1..Len(s) : s[i] = m})

\* The members placed so far: the pairs, flattened, then the ignored.
Placed == Flatten(pairs) \o ignored

\* Every roster member is placed exactly once and nobody else is placed.
Partition ==
    /\ \A m \in roster : Count(Placed, m) = 1
    /\ Range(Placed) \subseteq roster

\* The last iteration of the pairing loop gave up on current_user.
JustIgnored ==
    /\ pc = "loop"
    /\ Len(ignored) >= 1
    /\ ignored[Len(ignored)] = current_user

\* The last iteration of the pairing loop committed a pair for current_user.
JustCommitted ==
    /\ pc = "loop"
    /\ Len(pairs) >= 1
    /\ pairs[Len(pairs)][1] = current_user

Checked == {cur_checks[i].pair[2] : i \in 1..Len(cur_checks)}

AllChecks(res) == \A i \in 1..Len(cur_checks) : cur_checks[i].result = res

\* The distance of two members, read from the matrix.
Distance(a, b) == u_distance_matrix[GetSparseMatrixIndex(users, a, b)]

----------------------------------------------------------------------------
\* C1: when the Simple strategy returns, every roster member appears exactly
\* once in the flattened pairs plus ignored, and no other member appears.
C1_SimplePartition ==
    (algo = "simple" /\ pc = "done") => Partition

\* A run with a pair, a member given up on and a member left over.
C1_Witness ==
    /\ algo = "simple" /\ pc = "done"
    /\ Len(pairs) >= 1
    /\ Len(ignored) >= 2

\* C2: when the Max-Distance strategy returns, every roster member appears
\* in exactly one pair or exactly once in ignored (the member left in the
\* working set at loop end included).
C2_MaxPartition ==
    (algo = "maxdist" /\ pc = "done") => Partition

\* C3: a pair (current, candidate) is appended to pairs only when the last
\* check issued for current was for exactly that pair, with backtrack_days,
\* and answered false.
C3_ExclusionOnCommit ==
    [][pairs' # pairs =>
          /\ Len(cur_checks) >= 1
          /\ \E cand \in Members :
                /\ pairs' = Append(pairs, <<current_user, cand>>)
                /\ cur_checks[Len(cur_checks)] =
                       [pair |-> <<current_user, cand>>, days |-> BacktrackDays,
                        result |-> "False"]]_vars

\* A pair committed after an earlier candidate was rejected.
C3_Witness ==
    /\ JustCommitted
    /\ Len(cur_checks) >= 2
    /\ cur_checks[1].result = "True"

\* C4: with every check answering false, the simple pairing (the strategy
\* and the inline loop) ends with n div 2 pairs and n mod 2 ignored members,
\* having issued exactly one check per committed pair.
C4_SimpleParity ==
    (algo \in {"simple", "inline"} /\ pc = "done" /\ answers_seen \subseteq {"False"}) =>
        /\ Len(pairs) = Cardinality(roster) \div 2
        /\ Len(ignored) = Cardinality(roster) % 2
        /\ n_checks = Len(pairs)

\* The inline loop on an odd roster, every check answering false.
C4_Witness ==
    /\ algo = "inline" /\ pc = "done"
    /\ answers_seen = {"False"}
    /\ Cardinality(roster) = 3
    /\ Len(pairs) = 1 /\ Len(ignored) = 1

\* C5: with every check answering false, Max-Distance ends with n div 2
\* pairs and n mod 2 ignored members.
C5_MaxParity ==
    (algo = "maxdist" /\ pc = "done" /\ answers_seen \subseteq {"False"}) =>
        /\ Len(pairs) = Cardinality(roster) \div 2
        /\ Len(ignored) = Cardinality(roster) % 2

\* C6: with every check answering true, the Simple strategy ends with no
\* pair and every roster member ignored; on a roster of two the check is
\* invoked at most backtrack_max_attempts + 1 times.
C6_AllIneligible ==
    (algo = "simple" /\ pc = "done" /\ answers_seen \subseteq {"True"}) =>
        /\ pairs = <<>>
        /\ Range(ignored) = roster
        /\ Len(ignored) = Cardinality(roster)
        /\ (Cardinality(roster) = 2 => n_checks <= backtrack_max_attempts + 1)

\* Roster of two, every check answering true, the whole budget used.
C6_Witness ==
    /\ algo = "simple" /\ pc = "done"
    /\ answers_seen = {"True"}
    /\ Cardinality(roster) = 2
    /\ backtrack_max_attempts = MaxAttempts
    /\ n_checks = backtrack_max_attempts + 1
    /\ Len(ignored) = 2

\* C7: in the Simple strategy each current member gets between 1 and
\* backtrack_max_attempts + 1 checks; it is moved to ignored inside the loop
\* only after exactly backtrack_max_attempts + 1 checks that all answered
\* true; the only other way into ignored is to be the sole member left at
\* loop end.
C7_SimpleRetryBudget ==
    [][algo = "simple" =>
          /\ Len(cur_checks') <= backtrack_max_attempts + 1
          /\ (pc = "retry" /\ pc' = "loop") => Len(cur_checks) >= 1
          /\ ignored' # ignored =>
                \/ /\ pc' = "loop"
                   /\ ignored' = Append(ignored, current_user)
                   /\ Len(cur_checks) = backtrack_max_attempts + 1
                   /\ \A i \in 1..Len(cur_checks) :
                         /\ cur_checks[i].result = "True"
                         /\ cur_checks[i].pair[1] = current_user
                \/ /\ pc' = "done"
                   /\ Len(users) = 1
                   /\ ignored' = Append(ignored, users[1])]_vars

\* A member given up on after the initial check and every retry.
C7_Witness ==
    /\ algo = "simple"
    /\ JustIgnored
    /\ backtrack_max_attempts = MaxAttempts
    /\ Len(cur_checks) = MaxAttempts + 1

\* C8 (as claimed): in Max-Distance a current member is moved to ignored
\* only once the retry budget is used up.
C8_IgnoredOnlyAfterBudget ==
    (algo = "maxdist" /\ JustIgnored) => retry >= backtrack_max_attempts

\* C8 (amended): in Max-Distance a current member is moved to ignored only
\* after every check issued for it answered true and either the retry budget
\* is used up or every other member of the working set has been checked.
C8_IgnoredAfterBudgetOrExhaustion ==
    (algo = "maxdist" /\ JustIgnored) =>
        /\ Len(cur_checks) >= 1
        /\ AllChecks("True")
        /\ \/ retry >= backtrack_max_attempts
           \/ Range(working_users) \subseteq Checked

\* A member given up on with budget left, all candidates having been tried.
C8_Witness ==
    /\ algo = "maxdist"
    /\ JustIgnored
    /\ retry < backtrack_max_attempts
    /\ Len(cur_checks) >= 2

\* C9: in Max-Distance the checks issued for one current member, over all
\* distance groups, number at most backtrack_max_attempts + 1.
C9_GlobalBudget ==
    algo = "maxdist" => Len(cur_checks) <= backtrack_max_attempts + 1

\* C10: in Max-Distance a candidate is checked only after every member of
\* the working set that is strictly nearer (smaller distance) to the current
\* member has been checked for it.
C10_DistanceOrdering ==
    (algo = "maxdist" /\ pc \in {"search", "bucket", "loop", "done", "aborted"}) =>
        \A k \in 1..Len(cur_checks) :
            \A m \in Range(working_users) :
                Distance(current_user, m) < Distance(current_user, cur_checks[k].pair[2])
                    => \E j \in 1..(k - 1) : cur_checks[j].pair[2] = m

\* A partner committed at a greater distance after a nearer one was rejected.
C10_Witness ==
    /\ algo = "maxdist"
    /\ JustCommitted
    /\ Len(cur_checks) >= 2
    /\ Distance(current_user, cur_checks[1].pair[2])
           < Distance(current_user, cur_checks[Len(cur_checks)].pair[2])

\* The builder has returned the matrix: the channels were listed and the
\* members of every listed channel were fetched.
MatrixBuilt ==
    /\ algo = "maxdist"
    /\ Len(channel_calls) = Len(channel_ids) + 1
    /\ \A i \in 1..Len(channel_calls) : channel_calls[i].result = "Ok"

\* C11: once the builder has returned, the cell of every unordered pair of
\* roster members holds the number of listed channels whose member list
\* contains both of them; members outside the roster add nothing.
C11_MatrixContent ==
    MatrixBuilt =>
        \A ab \in RosterPairs(roster) : Distance(ab[1], ab[2]) = shared_channels[ab]

\* A matrix built from two channels: one pair shares both, another shares none.
C11_Witness ==
    /\ MatrixBuilt
    /\ Len(channel_ids) = 2
    /\ \E ab, cd \in RosterPairs(roster) :
          /\ shared_channels[ab] = 2 /\ Distance(ab[1], ab[2]) = 2
          /\ shared_channels[cd] = 0 /\ Distance(cd[1], cd[2]) = 0

\* C12: every cell the builder writes and every cell the distance grouping
\* reads has coordinates (i, j) with i < j, positions in the sorted roster;
\* the diagonal and the lower triangle stay untouched, and the cell looked up
\* for (a, b) is the cell looked up for (b, a).
C12_CanonicalIndexing ==
    (algo = "maxdist" /\ pc # "start") =>
        /\ \A ij \in cells_written \cup cells_read : ij[1] < ij[2]
        /\ \A ij \in DOMAIN u_distance_matrix :
              ij[1] >= ij[2] => u_distance_matrix[ij] = 0
        /\ \A ab \in RosterPairs(roster) :
              GetSparseMatrixIndex(users, ab[1], ab[2]) = GetSparseMatrixIndex(users, ab[2], ab[1])

\* The builder has written cells, and the grouping has read the cell of a
\* member with a smaller id than the current member.
C12_Witness ==
    /\ algo = "maxdist" /\ pc = "search"
    /\ cells_written # {}
    /\ \E t \in Range(working_users) :
          /\ t < current_user
          /\ GetSparseMatrixIndex(users, current_user, t) \in cells_read

\* Scenario D: the roster is U1, U2, U3 and two channels were listed, both
\* holding U1 and U2 and neither holding U3 (as both hold U1 and U2, U3 is in
\* neither exactly when it shares no channel with U1 and none with U2).
ScenarioD ==
    /\ MatrixBuilt
    /\ roster = {1, 2, 3}
    /\ Len(channel_ids) = 2
    /\ shared_channels[<<1, 2>>] = 2
    /\ shared_channels[<<1, 3>>] = 0
    /\ shared_channels[<<2, 3>>] = 0

\* C13: in Scenario D the builder yields distance(U1, U2) = 2 and
\* distance(U1, U3) = 0; as long as every check finds the pair eligible, the
\* partner of U1 as current is U3 and the pair of U1 and U2 is never committed.
C13_ScenarioD ==
    ScenarioD =>
        /\ Distance(1, 2) = 2
        /\ Distance(1, 3) = 0
        /\ answers_seen \subseteq {"False"} =>
              \A i \in 1..Len(pairs) :
                 /\ pairs[i][1] = 1 => pairs[i][2] = 3
                 /\ Range(pairs[i]) # {1, 2}

\* Scenario D with U1 drawn first and paired with U3 after one check.
C13_Witness ==
    /\ ScenarioD
    /\ JustCommitted
    /\ cur_checks = <<Check(1, 3, "False")>>
    /\ pairs = <<<<1, 3>>>>

\* The step is a recent-exchange check that failed with a communication error.
CheckFails ==
    /\ Len(cur_checks') = Len(cur_checks) + 1
    /\ cur_checks'[Len(cur_checks')].result = "Error"

\* C14: in every pairing loop a recent-exchange check that fails with a
\* communication error aborts the run at once: pairs and ignored are as they
\* were before the check, the current member is in neither, and nothing
\* happens after the abort (no further remote call).
C14_CheckFailureFatal ==
    [][/\ pc # "aborted"
       /\ CheckFails =>
             /\ pc' = "aborted"
             /\ pairs' = pairs /\ ignored' = ignored
             /\ current_user' = current_user
             /\ current_user \notin Range(Flatten(pairs') \o ignored')]_vars

\* A Simple run aborted by the second check of a member, after a pair had
\* been committed.
C14_Witness ==
    /\ algo = "simple" /\ pc = "aborted"
    /\ Len(pairs) = 1
    /\ Len(cur_checks) = 2
    /\ cur_checks[1].result = "True"
    /\ cur_checks[2].result = "Error"
    /\ current_user \notin Range(Placed)

\* A channel call of the builder has failed with a communication error.
BuildFailed ==
    /\ algo = "maxdist"
    /\ \E i \in 1..Len(channel_calls) : channel_calls[i].result = "Error"

\* C15: when listing the channels or fetching the members of a channel fails,
\* the Max-Distance run is aborted: the failing call is the last channel call
\* (no remaining channel is queried), no grouping has read the matrix, no
\* recent-exchange check has been issued, and pairs and ignored are empty.
C15_BuildFailureAborts ==
    BuildFailed =>
        /\ pc = "aborted"
        /\ \A i \in 1..(Len(channel_calls) - 1) : channel_calls[i].result = "Ok"
        /\ Len(channel_calls) <= channel_idx + 1
        /\ n_checks = 0 /\ cur_checks = <<>>
        /\ cells_read = {} /\ u_distance_dict = <<>>
        /\ working_users = <<>>
        /\ pairs = <<>> /\ ignored = <<>>

\* The members of the first of two channels could not be fetched.
C15_Witness ==
    /\ BuildFailed
    /\ pc = "aborted"
    /\ Len(channel_ids) = 2
    /\ Len(channel_calls) = 2
    /\ Cardinality(roster) >= 2

\* No two of the checks issued for the current member were about the same pair.
NoRepeatedCheck ==
    \A i, j \in 1..Len(cur_checks) : i # j => cur_checks[i].pair # cur_checks[j].pair

\* C16: in the retry loop of the Simple strategy every resample picks a
\* candidate different from the candidates already rejected for the current
\* member, so no pair is checked twice for one current member.
C16_NoRepeatedCandidate ==
    algo = "simple" => NoRepeatedCheck

\* C17: in the Max-Distance search every candidate is taken out of its
\* distance group before it is checked, so no candidate is checked twice for
\* one current member, and the checks issued for one current member never
\* outnumber the other members of the working set.
C17_RemoveThenCheck ==
    algo = "maxdist" =>
        /\ NoRepeatedCheck
        /\ pc \in {"search", "bucket", "aborted"} =>
              /\ Len(cur_checks) <= Len(working_users)
              /\ \A k \in 1..Len(u_distance_dict) :
                    Checked \cap Range(u_distance_dict[k].users) = {}

\* Every other member of a working set of two has been checked and rejected.
C17_Witness ==
    /\ algo = "maxdist" /\ pc = "bucket"
    /\ Len(working_users) = 2
    /\ Checked = Range(working_users)
    /\ AllChecks("True")

\* C18: at every moment of a Max-Distance run no member occurs more than once
\* in the flattened pairs plus ignored, no pair holds one member twice, and
\* every member placed belongs to the roster and has left the working set.
C18_MaxPairsDisjoint ==
    algo = "maxdist" =>
        /\ \A m \in Members : Count(Placed, m) <= 1
        /\ \A i \in 1..Len(pairs) : pairs[i][1] # pairs[i][2]
        /\ Range(Placed) \subseteq roster
        /\ Range(Placed) \cap Range(working_users) = {}

\* A run that gave up on one member and then paired the two others.
C18_Witness ==
    /\ algo = "maxdist" /\ pc = "done"
    /\ Len(ignored) = 1
    /\ Len(pairs) = 1
    /\ working_users = <<>>

\* C19: once the Max-Distance run has sorted the roster, and so from the
\* moment the matrix is built until the run ends, no step changes the list
\* users (the pairing consumes working_users only), so a matrix index denotes
\* the same member throughout.
C19_RosterImmutable ==
    [][(algo = "maxdist" /\ pc # "start") => users' = users]_vars

\* The working copy has been consumed and the roster is still whole, in order.
C19_Witness ==
    /\ algo = "maxdist" /\ pc = "done"
    /\ users = <<1, 2, 3>>
    /\ Len(pairs) = 1
    /\ Len(working_users) = 1

\* C20: when SimpleGeneratorAlgorithm.compute_pairs_from_users returns, the
\* list the caller passed still holds every member of the roster (the pairing
\* worked on a copy).
C20_SimpleKeepsRoster ==
    (algo = "simple" /\ pc = "done") => Range(users) = roster

\* C21: whenever a call of compute_pairs_from_users on an instance returns,
\* get_pairs and get_ignored hold the result of that call only: the members
\* of its roster, each placed exactly once, and nothing of an earlier call.
C21_NoStaleResults ==
    (algo = "simple" /\ pc = "done") => Partition

\* The list the pairing loop consumes.
WorkingSet == IF algo = "maxdist" THEN working_users ELSE users

\* C22: every run of a pairing loop reaches a final position (the result is
\* returned, or the run is aborted) after finitely many steps; every turn of
\* the outer loop makes the working set strictly shorter, nothing makes it
\* longer inside the loop, and the retry counter never passes
\* backtrack_max_attempts.
C22_Termination ==
    /\ <>(pc \in {"done", "aborted"})
    /\ [][/\ (pc = "loop" /\ pc' # "done") => Len(WorkingSet') < Len(WorkingSet)
          /\ pc \in {"loop", "check", "retry", "search", "bucket"} =>
                Len(WorkingSet') <= Len(WorkingSet)
          /\ retry' <= backtrack_max_attempts]_vars

\* A run that returned after spending its whole retry budget on one member.
C22_Witness ==
    /\ pc = "done"
    /\ backtrack_max_attempts = MaxAttempts
    /\ ignored # <<>>
    /\ pairs # <<>>
    /\ "True" \in answers_seen

\* The entries of all pages of a listing, in page order.
RECURSIVE Concat(_)
Concat(pages) == IF pages = <<>> THEN <<>> ELSE Head(pages) \o Concat(Tail(pages))

\* C23: get_public_channel_ids follows the cursor until it is empty and
\* returns the id of every channel of every page, in page order.
C23_AllChannelPages ==
    (api_method = "conversations_list" /\ wpc = "returned") =>
        /\ api_calls = Len(api_pages)
        /\ wrapper_result = Concat(api_pages)

\* C24: get_users_from_channel follows the cursor until it is empty and
\* returns the members of every page, in page order, without the members
\* that are in ignore_users and with all the others.
C24_AllMemberPages ==
    (api_method = "conversations_members" /\ wpc = "returned") =>
        /\ api_calls = Len(api_pages)
        /\ wrapper_result = LET NotIgnored(m) == m \notin ignore_users
                            IN  SelectSeq(Concat(api_pages), NotIgnored)

\* Two pages of one member each, the member of the first page ignored, the
\* member of the second returned.
C24_Witness ==
    /\ api_method = "conversations_members" /\ wpc = "returned"
    /\ api_pages = <<<<1>>, <<2>>>>
    /\ ignore_users = {1}
    /\ wrapper_result = <<2>>

\* The pairs of the send_message_to_pairs calls made, in call order.
SendPairs == [i \in 1..Len(sends) |-> sends[i].pair]

\* The file the invitation run has written.
WrittenFile == CHOOSE f \in history_dir : f.name = written[1]

\* C25: in test mode no send_message_to_pairs call of the invitation or of
\* the reminder action posts a message; the conversation is still opened for
\* every pair, and an invitation run still pairs and writes its history file.
C25_TestModeSendsNothing ==
    test_mode =>
        /\ \A i \in 1..Len(sends) : ~sends[i].posted /\ sends[i].opened
        /\ (action = "invitation" /\ apc = "end") =>
               /\ Len(sends) = Len(pairs)
               /\ Len(written) = 1
               /\ EndsWith(written[1], <<"-", "T", "E", "S", "T", "M", "O", "D", "E", ".", "j", "s", "o", "n">>)
               /\ WrittenFile.content = JsonDump(pairs)

\* A test-mode invitation run that has paired four members, made its two
\* send calls without a failure and written its file.
C25_Witness ==
    /\ test_mode /\ action = "invitation" /\ apc = "end"
    /\ Len(pairs) = 2 /\ Len(sends) = 2
    /\ \A i \in 1..2 : ~sends[i].failed
    /\ written # <<>>

\* The pairs of the history file, up to the loop position, whose check
\* answered False.
RECURSIVE NeedReminder(_)
NeedReminder(n) ==
    IF n = 0 THEN <<>>
    ELSE IF rem_checks[n].result = "False"
         THEN Append(NeedReminder(n - 1), history_pairs[n])
         ELSE NeedReminder(n - 1)

\* C26: a send that fails stops neither action: in the invitation run the
\* k-th send call is for the k-th pair, whatever the earlier calls did, and
\* the run ends with one call per pair; in the reminder run every pair that
\* needs a reminder got one call, in list order; an action that exits or
\* crashes does so for another reason (no send made, or a failed check).
C26_SendFailuresNonFatal ==
    /\ action = "invitation" =>
          /\ Len(sends) = pair_idx
          /\ \A i \in 1..Len(sends) : sends[i].pair = pairs[i]
          /\ apc = "end" => Len(sends) = Len(pairs)
          /\ apc = "exit" => sends = <<>>
    /\ action = "reminder" =>
          /\ Len(sends) = Len(NeedReminder(pair_idx))
          /\ apc = "end" => SendPairs = NeedReminder(Len(history_pairs))
          /\ apc = "exit" => sends = <<>>
          /\ apc = "crashed" => rem_checks[Len(rem_checks)].result = "Error"

\* An invitation run whose first send failed and whose second went through.
C26_Witness ==
    /\ action = "invitation" /\ apc = "end"
    /\ Len(sends) = 2
    /\ sends[1].failed /\ ~sends[2].failed

\* The number of send calls that returned.
Returned == Cardinality({i \in 1..Len(sends) : ~sends[i].failed})

\* C27: the reminder run checks the pairs of the file it has chosen in file
\* order, each with backtrack_days and threshold 5; a send is attempted for a
\* pair exactly when its check answered False; reminder_sent is the number of
\* sends that did not fail.
C27_ReminderDecision ==
    (action = "reminder" /\ apc \in {"remind", "end", "crashed"}) =>
        /\ \E f \in history_dir : f.name = file_history /\ f.content = history_pairs
        /\ Len(rem_checks) = pair_idx + (IF apc = "crashed" THEN 1 ELSE 0)
        /\ \A i \in 1..Len(rem_checks) :
              /\ rem_checks[i].pair = history_pairs[i]
              /\ rem_checks[i].days = BacktrackDays
              /\ rem_checks[i].limit = 5
        /\ SendPairs = NeedReminder(pair_idx)
        /\ reminder_sent = Returned
        /\ apc = "end" => pair_idx = Len(history_pairs)

\* A reminder run over two pairs: the first has a recent exchange, the
\* second has none and its reminder fails, so nothing is counted.
C27_Witness ==
    /\ action = "reminder" /\ apc = "end"
    /\ Len(rem_checks) = 2
    /\ rem_checks[1].result = "True" /\ rem_checks[2].result = "False"
    /\ Len(sends) = 1 /\ sends[1].failed
    /\ reminder_sent = 0

\* C28: in the invitation run nothing is sent and no file is written until
\* the pairing loop has left at most one member unhandled and finished; a run
\* that exits on a failed fetch or a failed check has sent nothing and written
\* nothing.
C28_PairingPrecedesSending ==
    /\ [](action = "invitation" =>
            /\ (sends # <<>> \/ written # <<>>) =>
                   /\ pc = "done"
                   /\ Len(users) <= 1
                   /\ Len(pairs) * 2 + Len(ignored) = Cardinality(roster)
            /\ (pc = "aborted" \/ apc = "exit") => sends = <<>> /\ written = <<>>)
    /\ [][(action = "invitation" /\ pc' # "done") =>
             sends' = <<>> /\ history_dir' = history_dir]_vars

\* An invitation run that had committed a pair when a check failed.
C28_Witness ==
    /\ action = "invitation" /\ pc = "aborted"
    /\ pairs # <<>>
    /\ sends = <<>>

\* C29: an invitation run that gets through its pairing writes no file
\* before its last send attempt and exactly one after it; the file holds the
\* committed pairs in commit order, each as a 2-element array, whether or not
\* their send failed, and no ignored member.
C29_HistoryContent ==
    action = "invitation" =>
        /\ apc # "end" => written = <<>>
        /\ apc = "end" =>
              /\ Len(written) = 1
              /\ Len(sends) = Len(pairs)
              /\ Cardinality({f \in history_dir : f.name = written[1]}) = 1
              /\ Len(WrittenFile.content) = Len(pairs)
              /\ \A i \in 1..Len(pairs) :
                    /\ Len(WrittenFile.content[i]) = 2
                    /\ WrittenFile.content[i][1] = pairs[i][1]
                    /\ WrittenFile.content[i][2] = pairs[i][2]
                    /\ sends[i].pair = pairs[i]
                    /\ \A j \in 1..2 : WrittenFile.content[i][j] \notin Range(ignored)

\* A run that ignored a member and failed to send to its only pair, which
\* is in the file all the same.
C29_Witness ==
    /\ action = "invitation" /\ apc = "end"
    /\ ignored # <<>>
    /\ Len(pairs) = 1
    /\ sends[1].failed
    /\ WrittenFile.content = <<<<pairs[1][1], pairs[1][2]>>>>

\* The minutes at which an invitation run of this configuration file and
\* this test mode has left a file.
OwnRuns ==
    {t \in 0..MaxClock :
        \E f \in history_dir : f.name = GetHistoryFilename(test_mode, conf, Strftime(t))}

\* C30: the lookup of a reminder run returns the file of the latest
\* invitation run made with the same configuration file and the same test
\* mode, and None when there is no such run.
C30_LookupRoundTrip ==
    (action = "reminder" /\ apc # "start") =>
        file_history =
            IF OwnRuns = {} THEN NoFile
            ELSE GetHistoryFilename(test_mode, conf,
                     Strftime(CHOOSE t \in OwnRuns : \A u \in OwnRuns : u <= t))

\* C31: run on the same shuffled list, the same draws and the same answers,
\* the inline loop of manage_invitation_action and the Simple strategy go
\* through the same positions, issue the same checks and hold the same users,
\* pairs and ignored lists after every step, to the end; the inline loop
\* always has a step to answer a step of Simple, and that step brings the
\* two level again.
C31_InlineEqualsSimple ==
    /\ [](InSync =>
            /\ inl_users = users
            /\ inl_pairs = pairs
            /\ inl_ignored = ignored
            /\ inl_first = current_user
            /\ inl_second = target_user
            /\ inl_checks = cur_checks
            /\ inl_n_checks = n_checks
            /\ inl_pc = pc)
    /\ [](~InSync => ENABLED NextFollow)
    /\ [][twinVars' # twinVars => InSync']_vars

\* Both loops have finished a run with a retry, a pair and an
\* ignored member, with equal results.
C31_Witness ==
    /\ pc = "done" /\ inl_pc = "done"
    /\ n_checks >= 3
    /\ pairs # <<>> /\ Len(ignored) >= 2
    /\ inl_pairs = pairs /\ inl_ignored = ignored

\* C32: whenever a loop is about to draw a candidate, the collection it
\* draws from is not empty: the users list of Simple and of the inline loop
\* after the pop and at every redraw, the group of the Max-Distance search at
\* its first draw and at every redraw; and the candidate a commit removes is
\* in the working list at that moment.
C32_DrawsWellDefined ==
    /\ (algo \in {"simple", "inline"} /\ pc \in {"check", "retry"}) =>
          /\ users # <<>>
          /\ target_user \in Range(users)
          /\ current_user \notin Range(users)
    /\ (algo = "simple" /\ pc = "retry" /\ SimpleRetryCondition) => users # <<>>
    /\ (algo = "inline" /\ pc = "retry" /\ InlineRetryCondition) => users # <<>>
    /\ (algo = "maxdist" /\ pc = "search") =>
          \A b \in bucket..Len(u_distance_dict) : u_distance_dict[b].users # <<>>
    /\ (algo = "maxdist" /\ pc = "bucket" /\ MaxRetryCondition) =>
          u_distance_dict[bucket].users # <<>>
    /\ (algo = "maxdist" /\ pc = "bucket" /\ ~exist_recent_message) =>
          target_user \in Range(working_users)

\* A Max-Distance search that has drawn a whole group empty with retries
\* left: the redraw is not made.
C32_Witness ==
    /\ algo = "maxdist" /\ pc = "bucket"
    /\ exist_recent_message /\ retry >= 1 /\ retry < backtrack_max_attempts
    /\ u_distance_dict[bucket].users = <<>>

\* The pairing loop of the Max-Distance run has been entered (the builder
\* has returned), or a check has been issued.
BuildOver ==
    \/ pc \in {"loop", "search", "bucket", "done"}
    \/ n_checks > 0

\* C33: the channel calls of a Max-Distance run are one get_public_channel_ids
\* call followed by get_users_from_channel calls, the i-th of them for the
\* i-th returned channel; once the builder has returned there is exactly one
\* call per returned channel and the number of channel calls stays at that,
\* and no recent-exchange check is issued while the builder is at work.
C33_BuilderCallPattern ==
    algo = "maxdist" =>
        /\ (pc \in {"start", "build"}) => channel_calls = <<>>
        /\ (pc \in {"start", "build", "scan"}) => n_checks = 0 /\ cur_checks = <<>>
        /\ \A i \in 1..Len(channel_calls) :
              IF i = 1
              THEN channel_calls[i].op = "get_public_channel_ids"
              ELSE /\ channel_calls[i].op = "get_users_from_channel"
                   /\ i - 1 <= Len(channel_ids)
                   /\ channel_calls[i].channel = channel_ids[i - 1]
        /\ (pc = "scan") => Len(channel_calls) = channel_idx
        /\ BuildOver =>
              /\ Len(channel_calls) = Len(channel_ids) + 1
              /\ \A i \in 1..Len(channel_calls) : channel_calls[i].result = "Ok"

\* A finished run over two channels with at least one check.
C33_Witness ==
    /\ algo = "maxdist" /\ pc = "done"
    /\ Len(channel_ids) = 2
    /\ Len(channel_calls) = 3
    /\ n_checks >= 1

\* What one step of the simple pairing does to the progress reported: +2
\* with a pair committed, +1 with the current member ignored, nothing
\* otherwise while pairs and ignored stay as they are.
ProgressStep ==
    (algo \in {"simple", "inline"} /\ pc' # "start") =>
        /\ (Len(pairs') = Len(pairs) + 1) => pbar' = pbar + 2
        /\ (Len(ignored') = Len(ignored) + 1 /\ pc' = "loop") => pbar' = pbar + 1
        /\ (pairs' = pairs /\ ignored' = ignored) => pbar' = pbar

\* C34: in the simple pairing (the Simple strategy and the inline loop) the
\* progress reported grows by 2 in the step that commits a pair and by 1 in
\* the step that ignores the current member, no other step of the loop
\* changes it, and when the run has returned it equals the size of the
\* roster.
C34_ProgressAccounting ==
    /\ [](algo \in {"simple", "inline"} /\ pc = "done" => pbar = Cardinality(roster))
    /\ [](algo \in {"simple", "inline"} => pbar <= Cardinality(roster))
    /\ [][ProgressStep]_vars

\* A returned run that committed a pair, ignored a member in the loop and
\* was left with one member over.
C34_Witness ==
    /\ algo = "simple" /\ pc = "done"
    /\ Len(pairs) >= 1
    /\ Len(ignored) >= 2
    /\ ignored[1] # users[1]
    /\ Len(users) = 1
    /\ pbar = 4

====
